---- MODULE Spec2Model ----
(***************************************************************************)
(* State-machine model of the StellarSwap client: the swap form            *)
(* (SwapForm.handleSwap -> dex.executeSwap -> sorobanClient.recordSwap)    *)
(* and the payment form (SendPayment -> stellar.sendPayment).              *)
(*                                                                         *)
(* One action is one event-loop task: a click handler run up to its first  *)
(* await, or the continuation that runs when an awaited wallet / network   *)
(* call returns or raises.  The wallet extension, Horizon and the Soroban  *)
(* RPC server are external: what they answer is drawn with \E.             *)
(*                                                                         *)
(* Strings that the code only compares are TLA+ strings.  Error messages   *)
(* are sequences of words so that String.includes is a real search.        *)
(* Numeric strings are the integer they parse to, in the unit named where  *)
(* they are declared.  The model follows one mounted form (the tab chosen  *)
(* in App); it does not follow a form across unmounting.                   *)
(***************************************************************************)
EXTENDS Integers, Sequences, FiniteSets, Bags, TLC

(***************************************************************************)
(* Bounds of the model.                                                    *)
(***************************************************************************)
MaxRefresh == 2        \* successes counted by App.refreshTrigger
MaxRecordTasks == 1    \* recordSwap calls in flight at once
MaxPreviews == 1       \* price-preview requests in flight at once
MaxClock == 2          \* readings of the wall clock, in seconds
MaxFeedPolls == 2      \* pollForUpdates calls in flight at once
MaxStatusPolls == 2    \* NOT_FOUND answers to one recordSwap call
MaxBids == 2           \* bid levels of an orderbook snapshot
MaxOverlap == 2        \* price-preview requests in flight at once, previews followed alone

(***************************************************************************)
(* Messages: sequences of words; includes() is a contiguous search.        *)
(***************************************************************************)
Includes(msg, pat) ==
  \E i \in 1..(Len(msg) - Len(pat) + 1) : SubSeq(msg, i, i + Len(pat) - 1) = pat

NullMsg == <<"<null>">>
EmptyMsg == <<>>

MsgUserDeclined == <<"User", "declined">>
MsgRejected == <<"rejected">>
MsgRejectedByUser == <<"Transaction", "was", "rejected", "by", "user">>
MsgSigningFailed == <<"Transaction", "signing", "failed">>
MsgNoSignedWallet == <<"No", "signed", "transaction", "returned", "from", "wallet">>
MsgNoSignedFreighter == <<"No", "signed", "transaction", "returned", "from", "Freighter">>
MsgFailedToSign == <<"Failed", "to", "sign", "transaction">>
MsgInvalidPrice == <<"Invalid", "price", "for", "swap">>
MsgNoLiquidity == <<"No", "available", "liquidity", "for", "this", "pair">>
MsgSwapUnderfunded == <<"Insufficient", "balance", "for", "this", "swap">>
MsgCrossSelf == <<"Cannot", "trade", "with", "your", "own", "offers">>
MsgSwapFailed == <<"Swap", "failed.", "Please", "try", "again.">>
MsgRejectedInFreighter == <<"Transaction", "was", "rejected", "in", "Freighter">>
MsgPayUnderfunded == <<"Insufficient", "funds", "for", "this", "transaction">>
MsgNoDestination ==
  <<"Destination", "account", "does", "not", "exist", "and", "amount", "is", "below",
    "minimum", "(1", "XLM", "needed", "to", "create", "account)">>
MsgTxFailed == <<"Transaction", "failed.", "Please", "try", "again.">>
MsgPaymentFailed == <<"Payment", "failed">>
MsgMalformedXdr == <<"XDR", "Read", "Error">>
MsgUnexpected == <<"An", "unexpected", "error", "occurred">>
MsgDestinationInvalid == <<"destination", "is", "invalid">>
MsgAmountInvalid == <<"amount", "argument", "must", "be", "positive">>

Err(m) == [isError |-> TRUE, message |-> m]
\* a raised value that is no Error object
NonError == [isError |-> FALSE, message |-> EmptyMsg]

\* What the wallet, Horizon's account load and Horizon's submission raise.
\* Horizon's load error takes the response's status text as its message,
\* which can be empty.
WalletRaised ==
  { Err(<<"User", "declined", "access">>),
    Err(<<"Request", "declined">>),
    Err(<<"Signature", "rejected">>),
    Err(<<"Request", "Rejected">>),
    NonError }
LoadRaised == { Err(<<"Network", "Error">>), Err(EmptyMsg), NonError }
SubmitRaised ==
  { Err(<<"tx_failed", "op_underfunded">>),
    Err(<<"tx_failed", "op_cross_self">>),
    Err(<<"tx_failed", "op_no_destination">>),
    Err(<<"Network", "Error">>) }


(***************************************************************************)
(* Wallet signing responses (freighterApi.signTransaction).                *)
(***************************************************************************)
Absent == "<absent>"
ValidXdr == {"XDR1", "XDR2"}
XdrStrings == {"", "BAD"} \cup ValidXdr

SignResponses ==
  [type : {"string"}, str : XdrStrings, signedTxXdr : {Absent}, signedXDR : {Absent},
   xdr : {Absent}, hasError : {FALSE}, error : {EmptyMsg}]
  \cup
  [type : {"null"}, str : {""}, signedTxXdr : {Absent}, signedXDR : {Absent},
   xdr : {Absent}, hasError : {FALSE}, error : {EmptyMsg}]
  \cup
  [type : {"object"}, str : {""}, signedTxXdr : {Absent, "", "XDR1"},
   signedXDR : {Absent, "XDR2"}, xdr : {Absent, "BAD"}, hasError : {FALSE},
   error : {EmptyMsg}]
  \cup
  [type : {"object"}, str : {""}, signedTxXdr : {Absent, "XDR1"}, signedXDR : {Absent},
   xdr : {Absent}, hasError : {TRUE},
   error : {EmptyMsg, <<"User", "declined", "access">>, <<"Wallet", "locked">>}]

\* What the wallet does with a signing request: answers, or raises.
SignOutcomes ==
  [kind : {"response"}, response : SignResponses, raised : {NonError}]
  \cup
  [kind : {"raise"}, response : {CHOOSE r \in SignResponses : r.type = "null"},
   raised : WalletRaised]

\* Variant: only the bare string and signedTxXdr are looked at.
ExtractSignedTxXdrOnly(result) ==
  IF result.type = "string" THEN result.str
  ELSE IF result.type = "object" THEN result.signedTxXdr
  ELSE Absent

\* extractSignedXDR: the bare string, then signedTxXdr, signedXDR, xdr.
\* Absent stands for null.
extractSignedXDR(result) ==
  IF result.type = "string" THEN result.str
  ELSE IF result.type = "object" THEN
    IF result.signedTxXdr # Absent THEN result.signedTxXdr
    ELSE IF result.signedXDR # Absent THEN result.signedXDR
    ELSE IF result.xdr # Absent THEN result.xdr
    ELSE Absent
  ELSE Absent

\* !signedXDR
Falsy(s) == s = Absent \/ s = ""

\* A call result: a value, or a raised Error / non-Error.
Ok(v) == [ok |-> TRUE, value |-> v, raised |-> NonError]
Throw(r) == [ok |-> FALSE, value |-> Absent, raised |-> r]

\* Variant: only 'User declined' is looked for.
ClassifyUserDeclinedOnly(r) ==
  IF r.isError
    THEN IF Includes(r.message, MsgUserDeclined) THEN Err(MsgRejectedByUser) ELSE r
    ELSE Err(MsgFailedToSign)

\* The catch block shared by useWallet.signTransaction and sendPayment.
ClassifySignError(r) ==
  IF r.isError
    THEN IF Includes(r.message, MsgUserDeclined) \/ Includes(r.message, MsgRejected)
           THEN Err(MsgRejectedByUser)
           ELSE r
    ELSE Err(MsgFailedToSign)

\* useWallet.signTransaction, from the wallet's outcome to what the caller gets.
signTransaction(outcome) ==
  IF outcome.kind = "raise" THEN Throw(ClassifySignError(outcome.raised))
  ELSE LET signResult == outcome.response
           signedXDR == extractSignedXDR(signResult)
       IN IF signResult.type = "object" /\ signResult.hasError
            THEN Throw(ClassifySignError(Err(
                   IF signResult.error # EmptyMsg THEN signResult.error
                                                  ELSE MsgSigningFailed)))
          ELSE IF Falsy(signedXDR)
            THEN Throw(ClassifySignError(Err(MsgNoSignedWallet)))
          ELSE Ok(signedXDR)

\* TransactionBuilder.fromXDR raises on a payload that is no envelope.
FromXdrOk(signedXDR) == signedXDR \in ValidXdr


(***************************************************************************)
(* Decimal strings.  A numeric string is the integer it parses to.  TLC's  *)
(* integers are 32 bits wide, so the model keeps three fractional digits   *)
(* where the code keeps eight: XLM is the number 1, Stroop is the last     *)
(* digit toFixed(7) keeps (0.0000001), and one unit is the digit below it  *)
(* (0.00000001), so that toFixed(7) rounds.                                *)
(***************************************************************************)
XLM == 10^3
Stroop == XLM \div 10^2

\* Number.prototype.toFixed(7) of x units: the nearest multiple of a stroop.
ToFixed7(x) == ((x + 5) \div Stroop) * Stroop

\* (parseFloat(bestPrice) * 0.98).toFixed(7)
SlippagePrice(p) == ((p * 98 + 500) \div 1000) * Stroop

\* The strings a number input can hold, and parseFloat of them ('' is NaN).
NumberStrings == {"", "0", "5", "50"}
IsNaN(s) == s = ""
parseFloat(s) ==
  CASE s = "0" -> 0
    [] s = "1" -> XLM
    [] s = "5" -> 5 * XLM
    [] s = "6" -> 6 * XLM
    [] s = "50" -> 50 * XLM
    [] OTHER -> 0

\* A displayed decimal: '', 'N/A', the literal '0', or a formatted number.
Dec(k, v) == [kind |-> k, val |-> v]
DecEmpty == Dec("empty", 0)
DecNA == Dec("na", 0)
DecZero == Dec("zero", 0)
DecNum(v) == Dec("num", v)

(***************************************************************************)
(* constants.ts                                                            *)
(***************************************************************************)
PLACEHOLDER_CONTRACT_ID == "PLACEHOLDER_CONTRACT_ID"
ContractIds == {PLACEHOLDER_CONTRACT_ID, "CDEPLOYED"}

\* issuer "" is undefined: the native asset.
SUPPORTED_ASSETS ==
  << [code |-> "XLM", issuer |-> ""],
     [code |-> "USDC", issuer |-> "ISSUER_USDC"],
     [code |-> "SRT", issuer |-> "ISSUER_SRT"] >>
AssetAt(i) == SUPPORTED_ASSETS[i + 1]
\* the options the user picks from in the two <select>s: the native asset
\* and one credit asset
AssetChoices == {0, 1}

PublicKey == "GSELF"
Hashes == {"hashA", "hashB"}
NoHash == "<null>"

(***************************************************************************)
(* Horizon answers.                                                        *)
(***************************************************************************)
BalanceLines ==
  { [asset_type |-> "native", asset_code |-> "", asset_issuer |-> ""],
    [asset_type |-> "credit_alphanum4", asset_code |-> "USDC", asset_issuer |-> "ISSUER_USDC"],
    [asset_type |-> "credit_alphanum4", asset_code |-> "USDC", asset_issuer |-> "ISSUER_OTHER"],
    [asset_type |-> "credit_alphanum4", asset_code |-> "SRT", asset_issuer |-> "ISSUER_SRT"],
    [asset_type |-> "liquidity_pool_shares", asset_code |-> "", asset_issuer |-> ""] }
LineOf(code, issuer) ==
  CHOOSE l \in BalanceLines : l.asset_code = code /\ l.asset_issuer = issuer
NativeLine == CHOOSE l \in BalanceLines : l.asset_type = "native"
PoolLine == CHOOSE l \in BalanceLines : l.asset_type = "liquidity_pool_shares"
\* account.balances of a loaded account
Accounts ==
  { {NativeLine},
    {NativeLine, LineOf("USDC", "ISSUER_USDC")},
    {NativeLine, LineOf("USDC", "ISSUER_OTHER")},
    {NativeLine, LineOf("SRT", "ISSUER_SRT"), PoolLine},
    {NativeLine, LineOf("USDC", "ISSUER_USDC"), LineOf("SRT", "ISSUER_SRT")} }

\* Orderbook bids, best first: price and amount in units.
Bid(p, a) == [price |-> p, amount |-> a]
Orderbooks ==
  { <<>>,
    << Bid(0, 3 * XLM) >>,
    << Bid(XLM \div 2, 3 * XLM), Bid(XLM \div 4, 10 * XLM) >> }

\* fetchOrderbook: bestBidPrice, '0' when there is no bid.
BestBidPrice(bids) == IF Len(bids) > 0 THEN DecNum(bids[1].price) ELSE DecZero

Min(a, b) == IF a <= b THEN a ELSE b

\* Variant: totalReceived is assigned, not added to.
RECURSIVE FillWalkLastLevel(_, _, _)
FillWalkLastLevel(bids, remaining, totalReceived) ==
  IF bids = <<>> \/ remaining <= 0 THEN totalReceived
  ELSE LET bid == Head(bids)
           fillAmount == Min(remaining, bid.amount)
       IN FillWalkLastLevel(Tail(bids), remaining - fillAmount,
                            (fillAmount * bid.price) \div XLM)

\* The fillAmount of each bid level the loop visits, in order.
RECURSIVE FillAmounts(_, _)
FillAmounts(bids, remaining) ==
  IF bids = <<>> \/ remaining <= 0 THEN << >>
  ELSE LET fillAmount == Min(remaining, Head(bids).amount)
       IN << fillAmount >> \o FillAmounts(Tail(bids), remaining - fillAmount)

\* estimateSwapReceive's loop over orderbook.bids.
RECURSIVE FillWalk(_, _, _)
FillWalk(bids, remaining, totalReceived) ==
  IF bids = <<>> \/ remaining <= 0 THEN totalReceived
  ELSE LET bid == Head(bids)
           fillAmount == Min(remaining, bid.amount)
       IN FillWalk(Tail(bids), remaining - fillAmount,
                   totalReceived + (fillAmount * bid.price) \div XLM)

estimateSwapReceive(bids, sellAmountStr) ==
  DecNum(ToFixed7(FillWalk(bids, parseFloat(sellAmountStr), 0)))

(***************************************************************************)
(* State.                                                                  *)
(***************************************************************************)
VARIABLES
  activeTab,         \* App: the mounted form, 'swap' or 'send'
  refreshTrigger,    \* App: bumped by handleSwapSuccess / handlePaymentSuccess
  contractId,        \* constants.SWAP_TRACKER_CONTRACT_ID
  \* SwapForm state
  sellAssetIndex, buyAssetIndex, sellAmount, estimatedReceive, bestPrice,
  isLoadingPrice, txStatus, txHash, txError,
  debounceArmed,     \* debounceRef holds a live timer
  previews,          \* bag of fetchPricePreview calls awaiting Promise.all
  \* handleSwap / executeSwap in flight
  swapPc, swapArgs, swapEnvelope, swapSigned, swapCalls,
  \* bag of recordSwap calls in flight
  recTasks,
  \* SendPayment state
  payForm,           \* which SendPayment component: "handleSend" | "handleSubmit"
  destination, amount, memo, balance, status, payTxHash, payError,
  validationErrors,
  \* sendPayment in flight
  payPc, payArgs, destinationExists, payEnvelope, paySigned, payCalls,
  \* App: the optimistic swap records handed to SwapActivityFeed
  localSwaps,
  \* useWallet state
  publicKey, walletConnected, freighterInstalled, isLoading, error, isCorrectNetwork,
  walletName,
  checkTimer,        \* the 500 ms timer of the mount effect is pending
  api,               \* the optional functions the installed freighter-api exports
  \* connect / checkConnection in flight
  walletOp, walletPc, walletCalls,
  \* one call of a wallet function followed on its own (CallSpec)
  call,
  \* SwapActivityFeed state
  contractSwaps, feedIsLoading, feedError, cursorRef,
  feedLoads,         \* loadSwaps calls awaiting getRecentSwaps
  feedPolls          \* bag of pollForUpdates calls awaiting pollSwapEvents

appVars == <<activeTab, refreshTrigger, contractId>>
walletStateVars == <<publicKey, walletConnected, freighterInstalled, isLoading, error,
                     isCorrectNetwork, walletName>>
walletRunVars == <<checkTimer, api, walletOp, walletPc, walletCalls>>
walletVars == <<walletStateVars, walletRunVars>>
feedVars == <<contractSwaps, feedIsLoading, feedError, cursorRef, feedLoads, feedPolls>>
\* everything outside the two forms
shellVars == <<localSwaps, walletVars, call, feedVars>>
swapFormVars == <<sellAssetIndex, buyAssetIndex, sellAmount, estimatedReceive, bestPrice,
                  isLoadingPrice, txStatus, txHash, txError, debounceArmed, previews>>
swapRunVars == <<swapPc, swapArgs, swapEnvelope, swapSigned, swapCalls>>
payFormVars == <<payForm, destination, amount, memo, balance, status, payTxHash,
                 payError, validationErrors>>
payRunVars == <<payPc, payArgs, destinationExists, payEnvelope, paySigned, payCalls>>
formVars == <<swapFormVars, swapRunVars, recTasks, payFormVars, payRunVars>>
vars == <<appVars, swapFormVars, swapRunVars, recTasks, payFormVars, payRunVars, shellVars>>

NoCalls == [load |-> 0, sign |-> 0, submit |-> 0]
NoSwapArgs == [selling |-> 0, buying |-> 0, sellAmount |-> "", minPrice |-> 0]
NoPayArgs == [destination |-> "", amount |-> ""]



(***************************************************************************)
(* SwapForm: inputs, debounce and price preview.                           *)
(***************************************************************************)
SellAmounts == {"", "0", "5"}

\* <input type="number"> onChange; disabled while pending.  The debounce
\* effect re-runs because sellAmount changed: it restarts the timer.
SetSellAmount(a) ==
  /\ activeTab = "swap"
  /\ txStatus # "pending"
  /\ a # sellAmount
  /\ sellAmount' = a
  /\ debounceArmed' = TRUE
  /\ UNCHANGED <<sellAssetIndex, buyAssetIndex, estimatedReceive, bestPrice,
                 isLoadingPrice, txStatus, txHash, txError, previews>>
  /\ UNCHANGED <<shellVars, appVars, swapRunVars, recTasks, payFormVars, payRunVars>>

\* sell-asset <select> onChange
SelectSellAsset(idx) ==
  /\ activeTab = "swap"
  /\ txStatus # "pending"
  /\ idx # sellAssetIndex
  /\ sellAssetIndex' = idx
  /\ buyAssetIndex' = IF idx = buyAssetIndex THEN sellAssetIndex ELSE buyAssetIndex
  /\ debounceArmed' = TRUE
  /\ UNCHANGED <<sellAmount, estimatedReceive, bestPrice, isLoadingPrice, txStatus,
                 txHash, txError, previews>>
  /\ UNCHANGED <<shellVars, appVars, swapRunVars, recTasks, payFormVars, payRunVars>>

\* buy-asset <select> onChange
SelectBuyAsset(idx) ==
  /\ activeTab = "swap"
  /\ txStatus # "pending"
  /\ idx # buyAssetIndex
  /\ buyAssetIndex' = idx
  /\ sellAssetIndex' = IF idx = sellAssetIndex THEN buyAssetIndex ELSE sellAssetIndex
  /\ debounceArmed' = TRUE
  /\ UNCHANGED <<sellAmount, estimatedReceive, bestPrice, isLoadingPrice, txStatus,
                 txHash, txError, previews>>
  /\ UNCHANGED <<shellVars, appVars, swapRunVars, recTasks, payFormVars, payRunVars>>

handleFlipAssets ==
  /\ activeTab = "swap"
  /\ txStatus # "pending"
  /\ sellAssetIndex' = buyAssetIndex
  /\ buyAssetIndex' = sellAssetIndex
  /\ sellAmount' = ""
  /\ estimatedReceive' = DecEmpty
  /\ bestPrice' = DecEmpty
  /\ debounceArmed' = TRUE
  /\ UNCHANGED <<isLoadingPrice, txStatus, txHash, txError, previews>>
  /\ UNCHANGED <<shellVars, appVars, swapRunVars, recTasks, payFormVars, payRunVars>>

\* The debounce timer fires after 500 ms: fetchPricePreview runs up to its
\* Promise.all, or the preview is cleared.  The code sets no limit on the
\* requests in flight; the model follows at most limit of them.
DebounceFireWithin(limit) ==
  /\ activeTab = "swap"
  /\ debounceArmed
  /\ debounceArmed' = FALSE
  /\ IF sellAmount # "" /\ parseFloat(sellAmount) > 0
       THEN /\ BagCardinality(previews) < limit
            /\ isLoadingPrice' = TRUE
            /\ previews' = previews (+) SetToBag({[selling |-> sellAssetIndex,
                                                   buying |-> buyAssetIndex,
                                                   amount |-> sellAmount]})
            /\ UNCHANGED <<estimatedReceive, bestPrice>>
       ELSE /\ estimatedReceive' = DecEmpty
            /\ bestPrice' = DecEmpty
            /\ UNCHANGED <<isLoadingPrice, previews>>
  /\ UNCHANGED <<sellAssetIndex, buyAssetIndex, sellAmount, txStatus, txHash, txError>>
  /\ UNCHANGED <<shellVars, appVars, swapRunVars, recTasks, payFormVars, payRunVars>>

DebounceFire == DebounceFireWithin(MaxPreviews)

\* Variant: the answer to a request that is no longer the current inputs'
\* is dropped.
PreviewResolveIfCurrent(req, book, walkBook) ==
  /\ activeTab = "swap"
  /\ BagIn(req, previews)
  /\ IF req = [selling |-> sellAssetIndex, buying |-> buyAssetIndex, amount |-> sellAmount]
       THEN /\ bestPrice' = BestBidPrice(book)
            /\ estimatedReceive' = estimateSwapReceive(walkBook, req.amount)
       ELSE UNCHANGED <<bestPrice, estimatedReceive>>
  /\ isLoadingPrice' = FALSE
  /\ previews' = previews (-) SetToBag({req})
  /\ UNCHANGED <<sellAssetIndex, buyAssetIndex, sellAmount, txStatus, txHash, txError,
                 debounceArmed>>
  /\ UNCHANGED <<shellVars, appVars, swapRunVars, recTasks, payFormVars, payRunVars>>

\* Promise.all resolved: fetchOrderbook's snapshot and estimateSwapReceive's.
PreviewResolve(req, book, walkBook) ==
  /\ activeTab = "swap"
  /\ BagIn(req, previews)
  /\ bestPrice' = BestBidPrice(book)
  /\ estimatedReceive' = estimateSwapReceive(walkBook, req.amount)
  /\ isLoadingPrice' = FALSE
  /\ previews' = previews (-) SetToBag({req})
  /\ UNCHANGED <<sellAssetIndex, buyAssetIndex, sellAmount, txStatus, txHash, txError,
                 debounceArmed>>
  /\ UNCHANGED <<shellVars, appVars, swapRunVars, recTasks, payFormVars, payRunVars>>

\* Promise.all rejected
PreviewReject(req) ==
  /\ activeTab = "swap"
  /\ BagIn(req, previews)
  /\ bestPrice' = DecNA
  /\ estimatedReceive' = DecZero
  /\ isLoadingPrice' = FALSE
  /\ previews' = previews (-) SetToBag({req})
  /\ UNCHANGED <<sellAssetIndex, buyAssetIndex, sellAmount, txStatus, txHash, txError,
                 debounceArmed>>
  /\ UNCHANGED <<shellVars, appVars, swapRunVars, recTasks, payFormVars, payRunVars>>

\* TransactionStatus, failed panel: errorMessage || 'An unexpected error occurred'
ErrorShown(errorMessage) ==
  IF errorMessage = NullMsg \/ errorMessage = EmptyMsg THEN MsgUnexpected ELSE errorMessage

\* TransactionStatus shows "New Swap" / "Try Again"
resetTx ==
  /\ activeTab = "swap"
  /\ \/ txStatus = "success" /\ txHash # NoHash
     \/ txStatus = "failed"
  /\ txStatus' = "idle"
  /\ txHash' = NoHash
  /\ txError' = NullMsg
  /\ sellAmount' = ""
  /\ estimatedReceive' = DecEmpty
  /\ debounceArmed' = (debounceArmed \/ sellAmount # "")
  /\ UNCHANGED <<sellAssetIndex, buyAssetIndex, bestPrice, isLoadingPrice, previews>>
  /\ UNCHANGED <<shellVars, appVars, swapRunVars, recTasks, payFormVars, payRunVars>>


(***************************************************************************)
(* SwapForm.handleSwap and dex.executeSwap.                                *)
(***************************************************************************)
\* Variant: the issuer is not compared.
HasTrustlineByCode(balances, asset) ==
  \E bal \in balances :
    /\ bal.asset_type \in {"credit_alphanum4", "credit_alphanum12"}
    /\ bal.asset_code = asset.code

\* sourceAccount.balances.some(...): a credit line of the same code and issuer
HasTrustline(balances, asset) ==
  \E bal \in balances :
    /\ bal.asset_type \in {"credit_alphanum4", "credit_alphanum12"}
    /\ bal.asset_code = asset.code
    /\ bal.asset_issuer = asset.issuer

ChangeTrustOp(asset) == [type |-> "changeTrust", asset |-> asset]
ManageSellOfferOp(selling, buying, amt, price) ==
  [type |-> "manageSellOffer", selling |-> selling, buying |-> buying,
   amount |-> amt, price |-> price, offerId |-> 0]

\* The operations executeSwap adds to txBuilder, in order.
SwapOperations(balances, sellingAsset, buyingAsset, amt, minPrice) ==
  (IF buyingAsset.issuer # "" /\ ~HasTrustline(balances, buyingAsset)
     THEN << ChangeTrustOp(buyingAsset) >>
     ELSE << >>)
  \o << ManageSellOfferOp(sellingAsset, buyingAsset, amt, minPrice) >>

\* handleSwap's catch block: the message shown for a raised value
SwapErrorMessage(r) ==
  IF r.isError
    THEN IF Includes(r.message, MsgUserDeclined) \/ Includes(r.message, MsgRejected)
           THEN MsgRejectedByUser
         ELSE IF Includes(r.message, <<"op_underfunded">>) THEN MsgSwapUnderfunded
         ELSE IF Includes(r.message, <<"op_cross_self">>) THEN MsgCrossSelf
         ELSE r.message
    ELSE MsgSwapFailed

\* executeSwap has settled: its locals are gone
SwapReturn ==
  /\ swapPc' = "none"
  /\ swapArgs' = NoSwapArgs
  /\ swapEnvelope' = << >>
  /\ swapSigned' = Absent
  /\ swapCalls' = NoCalls

\* Variant: the catch block stores the message and leaves the status alone.
SwapCatchKeepsStatus(r) ==
  /\ txError' = SwapErrorMessage(r)
  /\ SwapReturn
  /\ UNCHANGED <<txStatus, txHash, refreshTrigger, recTasks>>

\* handleSwap's catch block
SwapCatch(r) ==
  /\ txStatus' = "failed"
  /\ txError' = SwapErrorMessage(r)
  /\ SwapReturn
  /\ UNCHANGED <<txHash, refreshTrigger, recTasks>>

\* Variant: the swap button stays rendered in the success view.
SwapButtonAlwaysShown == TRUE

\* {txStatus !== 'success' && <button ...>}: the swap button is rendered
SwapButtonShown == txStatus # "success"

\* Variant: the swap button stays enabled while a swap is pending.
SwapButtonEnabledWhilePending ==
  sellAmount = "" \/ parseFloat(sellAmount) <= 0 \/ isLoadingPrice

\* the swap button's disabled attribute
SwapButtonDisabled ==
  txStatus = "pending" \/ sellAmount = "" \/ parseFloat(sellAmount) <= 0 \/ isLoadingPrice

\* Variant: a best price that parses to zero also counts as no liquidity.
NoLiquidityOrZeroPrice(price) == price.kind \in {"empty", "na", "zero"} \/ price.val = 0

\* !bestPrice || bestPrice === 'N/A' || bestPrice === '0'
NoLiquidity(price) == price.kind \in {"empty", "na", "zero"}

\* The swap button's click handler, up to executeSwap's first await
\* (server.loadAccount).
handleSwap ==
  /\ activeTab = "swap"
  /\ SwapButtonShown
  /\ ~SwapButtonDisabled
  /\ refreshTrigger < MaxRefresh
  /\ BagCardinality(recTasks) < MaxRecordTasks
  /\ IF NoLiquidity(bestPrice)
       THEN /\ txError' = MsgNoLiquidity
            /\ txStatus' = "failed"
            /\ UNCHANGED <<txHash, swapRunVars>>
       ELSE /\ txStatus' = "pending"
            /\ txError' = NullMsg
            /\ txHash' = NoHash
            /\ swapPc' = "load"
            /\ swapArgs' = [selling |-> sellAssetIndex, buying |-> buyAssetIndex,
                            sellAmount |-> sellAmount,
                            minPrice |-> SlippagePrice(bestPrice.val)]
            /\ swapEnvelope' = << >>
            /\ swapSigned' = Absent
            /\ swapCalls' = [load |-> 1, sign |-> 0, submit |-> 0]
  /\ UNCHANGED <<sellAssetIndex, buyAssetIndex, sellAmount, estimatedReceive, bestPrice,
                 isLoadingPrice, debounceArmed, previews>>
  /\ UNCHANGED <<shellVars, appVars, recTasks, payFormVars, payRunVars>>

\* server.loadAccount(sourcePublicKey) returned: the price check, the
\* envelope, and the call of signTx.
SwapLoadOk(balances) ==
  /\ swapPc = "load"
  /\ IF swapArgs.minPrice <= 0
       THEN SwapCatch(Err(MsgInvalidPrice))
       ELSE /\ swapEnvelope' = SwapOperations(balances, AssetAt(swapArgs.selling),
                                              AssetAt(swapArgs.buying),
                                              swapArgs.sellAmount, swapArgs.minPrice)
            /\ swapPc' = "sign"
            /\ swapCalls' = [swapCalls EXCEPT !.sign = @ + 1]
            /\ UNCHANGED <<swapArgs, swapSigned, txStatus, txHash, txError,
                           refreshTrigger, recTasks>>
  /\ UNCHANGED <<sellAssetIndex, buyAssetIndex, sellAmount, estimatedReceive, bestPrice,
                 isLoadingPrice, debounceArmed, previews>>
  /\ UNCHANGED <<shellVars, activeTab, contractId, payFormVars, payRunVars>>

\* server.loadAccount(sourcePublicKey) raised
SwapLoadRaise(r) ==
  /\ swapPc = "load"
  /\ SwapCatch(r)
  /\ UNCHANGED <<sellAssetIndex, buyAssetIndex, sellAmount, estimatedReceive, bestPrice,
                 isLoadingPrice, debounceArmed, previews>>
  /\ UNCHANGED <<shellVars, activeTab, contractId, payFormVars, payRunVars>>

\* signTx(transaction.toXDR()) settled: parse the payload and submit it.
SwapSign(outcome) ==
  /\ swapPc = "sign"
  /\ LET res == signTransaction(outcome)
     IN IF ~res.ok
          THEN SwapCatch(res.raised)
        ELSE IF ~FromXdrOk(res.value)
          THEN SwapCatch(Err(MsgMalformedXdr))
        ELSE /\ swapSigned' = res.value
             /\ swapPc' = "submit"
             /\ swapCalls' = [swapCalls EXCEPT !.submit = @ + 1]
             /\ UNCHANGED <<swapArgs, swapEnvelope>>
             /\ UNCHANGED <<txStatus, txHash, txError, refreshTrigger, recTasks>>
  /\ UNCHANGED <<sellAssetIndex, buyAssetIndex, sellAmount, estimatedReceive, bestPrice,
                 isLoadingPrice, debounceArmed, previews>>
  /\ UNCHANGED <<shellVars, activeTab, contractId, payFormVars, payRunVars>>

RecTask(pc, hash) == [pc |-> pc, hash |-> hash]

\* recordSwap up to its first await: the placeholder check, then getAccount.
RecordSwapStart ==
  IF contractId = PLACEHOLDER_CONTRACT_ID
    THEN recTasks
    ELSE recTasks (+) SetToBag({RecTask("getAccount", NoHash)})

\* The argument of App.handleSwapSuccess; NoSwapData is undefined.
SwapData(from, to, amt, hash) ==
  [fromAsset |-> from, toAsset |-> to, amount |-> amt, txHash |-> hash]
NoSwapData == SwapData(Absent, Absent, Absent, Absent)

\* A LocalSwapRecord / SwapRecord of the activity feed.
SwapRecord(user, from, to, amt, ts, hash) ==
  [user |-> user, fromAsset |-> from, toAsset |-> to, amount |-> amt, timestamp |-> ts,
   txHash |-> hash]

\* Math.floor(Date.now() / 1000): the readings of the clock
Clock == 1..MaxClock

\* Array.prototype.sort((a, b) => b.timestamp - a.timestamp): a stable sort,
\* latest first.  InsertByTimestamp puts r behind the records that are not
\* older than it.
RECURSIVE InsertByTimestamp(_, _)
InsertByTimestamp(r, sorted) ==
  IF sorted = << >> THEN << r >>
  ELSE IF Head(sorted).timestamp >= r.timestamp
    THEN << Head(sorted) >> \o InsertByTimestamp(r, Tail(sorted))
  ELSE << r >> \o sorted

RECURSIVE SortByTimestampDesc(_)
SortByTimestampDesc(seq) ==
  IF seq = << >> THEN << >>
  ELSE InsertByTimestamp(seq[Len(seq)], SortByTimestampDesc(SubSeq(seq, 1, Len(seq) - 1)))

\* App.handleSwapSuccess(swapData) at clock reading now: both refresh
\* triggers are bumped (refreshTrigger stands for the two counters, which
\* only ever move together here), and a local record is prepended when
\* swap data was passed and a key is connected.  The render that follows
\* sorts the array in place (SwapActivityFeed's localSwaps.sort).
handleSwapSuccess(swapData, now) ==
  /\ refreshTrigger' = refreshTrigger + 1
  /\ localSwaps' =
       SortByTimestampDesc(
         IF swapData # NoSwapData /\ ~Falsy(publicKey)
           THEN << SwapRecord(publicKey, swapData.fromAsset, swapData.toAsset,
                              swapData.amount, now, swapData.txHash) >> \o localSwaps
           ELSE localSwaps)

\* server.submitTransaction returned: success, recordSwap is started and
\* not awaited, and the parent is notified: onSwapSuccess?.() passes no
\* argument, so App.handleSwapSuccess runs with swapData undefined.
SwapSubmitOk(hash) ==
  /\ swapPc = "submit"
  /\ txHash' = hash
  /\ txStatus' = "success"
  /\ recTasks' = RecordSwapStart
  /\ \E now \in Clock : handleSwapSuccess(NoSwapData, now)
  /\ SwapReturn
  /\ UNCHANGED txError
  /\ UNCHANGED <<sellAssetIndex, buyAssetIndex, sellAmount, estimatedReceive, bestPrice,
                 isLoadingPrice, debounceArmed, previews>>
  /\ UNCHANGED <<walletVars, call, feedVars, activeTab, contractId, payFormVars,
                 payRunVars>>

\* server.submitTransaction raised
SwapSubmitRaise(r) ==
  /\ swapPc = "submit"
  /\ SwapCatch(r)
  /\ UNCHANGED <<sellAssetIndex, buyAssetIndex, sellAmount, estimatedReceive, bestPrice,
                 isLoadingPrice, debounceArmed, previews>>
  /\ UNCHANGED <<shellVars, activeTab, contractId, payFormVars, payRunVars>>

(***************************************************************************)
(* sorobanClient.recordSwap, one task per call.                            *)
(***************************************************************************)
RecUnchanged ==
  /\ UNCHANGED <<shellVars, appVars, swapFormVars, swapRunVars, payFormVars, payRunVars>>

\* the call moves on to its next await
RecAdvance(task, next) ==
  /\ recTasks' = (recTasks (-) SetToBag({task})) (+) SetToBag({next})
  /\ RecUnchanged

\* Variant: recordSwap is awaited inside handleSwap's try block, so that its
\* rejection reaches the catch block.
RecEndSurfaced(task) ==
  /\ recTasks' = recTasks (-) SetToBag({task})
  /\ txStatus' = "failed"
  /\ txError' = <<"Contract", "tx", "failed">>
  /\ UNCHANGED <<sellAssetIndex, buyAssetIndex, sellAmount, estimatedReceive, bestPrice,
                 isLoadingPrice, txHash, debounceArmed, previews>>
  /\ UNCHANGED <<shellVars, appVars, swapRunVars, payFormVars, payRunVars>>

\* the promise settles; a rejection is only logged by handleSwap's .catch
RecEnd(task) ==
  /\ recTasks' = recTasks (-) SetToBag({task})
  /\ RecUnchanged

\* sorobanServer.getAccount settled
RecGetAccount(task, ok) ==
  /\ BagIn(task, recTasks)
  /\ task.pc = "getAccount"
  /\ IF ok THEN RecAdvance(task, RecTask("simulate", NoHash)) ELSE RecEnd(task)

\* sorobanServer.simulateTransaction settled: "ok", "simulationError", "raise"
RecSimulate(task, outcome) ==
  /\ BagIn(task, recTasks)
  /\ task.pc = "simulate"
  /\ IF outcome = "ok" THEN RecAdvance(task, RecTask("sign", NoHash)) ELSE RecEnd(task)

\* signTx(preparedTx.toXDR()) settled, then fromXDR and sendTransaction
RecSign(task, outcome) ==
  /\ BagIn(task, recTasks)
  /\ task.pc = "sign"
  /\ LET res == signTransaction(outcome)
     IN IF res.ok /\ FromXdrOk(res.value)
          THEN RecAdvance(task, RecTask("send", NoHash))
          ELSE RecEnd(task)

SendStatuses == {"PENDING", "DUPLICATE", "TRY_AGAIN_LATER", "ERROR"}

\* sorobanServer.sendTransaction settled: a status and hash, or "raise";
\* then the first getTransaction(sendResponse.hash) is issued
RecSend(task, sendStatus, hash) ==
  /\ BagIn(task, recTasks)
  /\ task.pc = "send"
  /\ IF sendStatus = "raise" \/ sendStatus = "ERROR"
       THEN RecEnd(task)
       ELSE RecAdvance(task, RecTask("poll", hash))

GetStatuses == {"NOT_FOUND", "SUCCESS", "FAILED"}

\* sorobanServer.getTransaction settled: NOT_FOUND waits 2 s and asks again
RecPoll(task, getStatus) ==
  /\ BagIn(task, recTasks)
  /\ task.pc = "poll"
  /\ IF getStatus = "NOT_FOUND" THEN UNCHANGED recTasks /\ RecUnchanged ELSE RecEnd(task)


(***************************************************************************)
(* SendPayment.  The file holds two components of that name: one whose     *)
(* submit handler is handleSend (status 'pending', no validation, no reset)*)
(* and one whose submit handler is handleSubmit (status 'sending',         *)
(* validateForm, resetForm).  payForm says which one is mounted.           *)
(***************************************************************************)
Destinations == {"", "bad", "GSELF", " GDEST "}
trim(s) == IF s = " GDEST " THEN "GDEST" ELSE s

\* Keypair.fromPublicKey(address) does not raise
isValidStellarAddress(address) == address \in {"GSELF", "GDEST"}

Balances == {"1", "6"}
Memos == {"", "hi"}
NoValidationErrors == [destination |-> "", amount |-> ""]

\* validateForm's errors object ("" is an absent key)
ValidationErrorsOf(dest, amt, bal) ==
  [destination |->
     IF trim(dest) = "" THEN "required"
     ELSE IF ~isValidStellarAddress(trim(dest)) THEN "invalid"
     ELSE IF trim(dest) = PublicKey THEN "self"
     ELSE "",
   amount |->
     IF amt = "" THEN "required"
     ELSE IF IsNaN(amt) \/ parseFloat(amt) <= 0 THEN "positive"
     ELSE IF parseFloat(amt) > parseFloat(bal) - XLM THEN "insufficient"
     ELSE IF parseFloat(amt) < Stroop THEN "minimum"
     ELSE ""]

\* validateForm's return value
validateForm(dest, amt, bal) == ValidationErrorsOf(dest, amt, bal) = NoValidationErrors

SetDestination(d) ==
  /\ payForm \in {"handleSend", "handleSubmit"}
  /\ ~(payForm = "handleSubmit" /\ status = "success" /\ payTxHash # NoHash)
  /\ status \notin {"pending", "sending"}
  /\ d # destination
  /\ destination' = d
  /\ validationErrors' = [validationErrors EXCEPT !.destination = ""]
  /\ UNCHANGED <<payForm, amount, memo, balance, status, payTxHash, payError>>
  /\ UNCHANGED <<shellVars, appVars, swapFormVars, swapRunVars, recTasks, payRunVars>>

SetAmount(a) ==
  /\ payForm \in {"handleSend", "handleSubmit"}
  /\ ~(payForm = "handleSubmit" /\ status = "success" /\ payTxHash # NoHash)
  /\ status \notin {"pending", "sending"}
  /\ a # amount
  /\ amount' = a
  /\ validationErrors' = [validationErrors EXCEPT !.amount = ""]
  /\ UNCHANGED <<payForm, destination, memo, balance, status, payTxHash, payError>>
  /\ UNCHANGED <<shellVars, appVars, swapFormVars, swapRunVars, recTasks, payRunVars>>

\* (parseFloat(balance) - 1).toFixed(7), as the string the model has for it
MaxAmount(bal) ==
  LET v == ToFixed7(parseFloat(bal) - XLM)
  IN CHOOSE n \in NumberStrings : n # "" /\ parseFloat(n) = v

\* the Max button of the handleSend form: (parseFloat(balance) - 1).toFixed(7);
\* it is not disabled while pending
SetAmountMax ==
  /\ payForm = "handleSend"
  /\ amount' = MaxAmount(balance)
  /\ UNCHANGED <<payForm, destination, memo, balance, status, payTxHash, payError,
                 validationErrors>>
  /\ UNCHANGED <<shellVars, appVars, swapFormVars, swapRunVars, recTasks, payRunVars>>

SetMemo(m) ==
  /\ payForm = "handleSend"
  /\ status # "pending"
  /\ m # memo
  /\ memo' = m
  /\ UNCHANGED <<payForm, destination, amount, balance, status, payTxHash, payError,
                 validationErrors>>
  /\ UNCHANGED <<shellVars, appVars, swapFormVars, swapRunVars, recTasks, payRunVars>>

\* sendPayment up to its first await: server.loadAccount(sourcePublicKey)
SendPaymentStart(dest, amt) ==
  /\ payPc' = "loadSource"
  /\ payArgs' = [destination |-> dest, amount |-> amt]
  /\ destinationExists' = TRUE
  /\ payEnvelope' = << >>
  /\ paySigned' = Absent
  /\ payCalls' = [load |-> 1, sign |-> 0, submit |-> 0]

\* The submit handler of the first component.  The button is disabled while
\* pending or while destination or amount is empty.
handleSend ==
  /\ payForm = "handleSend"
  /\ ~(status = "pending" \/ destination = "" \/ amount = "")
  /\ refreshTrigger < MaxRefresh
  /\ status' = "pending"
  /\ payError' = NullMsg
  /\ SendPaymentStart(destination, amount)
  /\ UNCHANGED <<payForm, destination, amount, memo, balance, payTxHash, validationErrors>>
  /\ UNCHANGED <<shellVars, appVars, swapFormVars, swapRunVars, recTasks>>

\* The submit handler of the second component.  The form is not rendered in
\* the success view; the button is disabled while sending.
handleSubmit ==
  /\ payForm = "handleSubmit"
  /\ ~(status = "success" /\ payTxHash # NoHash)
  /\ status # "sending"
  /\ refreshTrigger < MaxRefresh
  /\ validationErrors' = ValidationErrorsOf(destination, amount, balance)
  /\ IF ~validateForm(destination, amount, balance)
       THEN UNCHANGED <<status, payError, payTxHash, payRunVars>>
       ELSE /\ status' = "sending"
            /\ payError' = NullMsg
            /\ payTxHash' = NoHash
            /\ SendPaymentStart(trim(destination), amount)
  /\ UNCHANGED <<payForm, destination, amount, memo, balance>>
  /\ UNCHANGED <<shellVars, appVars, swapFormVars, swapRunVars, recTasks>>

\* "Send Another Payment" in the success view
resetForm ==
  /\ payForm = "handleSubmit"
  /\ status = "success" /\ payTxHash # NoHash
  /\ status' = "idle"
  /\ payError' = NullMsg
  /\ payTxHash' = NoHash
  /\ validationErrors' = NoValidationErrors
  /\ UNCHANGED <<payForm, destination, amount, memo, balance>>
  /\ UNCHANGED <<shellVars, appVars, swapFormVars, swapRunVars, recTasks, payRunVars>>

\* handleSubmit's catch block: the message shown for a raised value
SubmitErrorMessage(r) ==
  IF r.isError
    THEN IF Includes(r.message, MsgUserDeclined) THEN MsgRejectedInFreighter
         ELSE IF Includes(r.message, <<"op_underfunded">>) THEN MsgPayUnderfunded
         ELSE IF Includes(r.message, <<"op_no_destination">>) THEN MsgNoDestination
         ELSE r.message
    ELSE MsgTxFailed

\* handleSend's catch block: the message shown for a raised value
SendErrorMessage(r) == IF r.isError THEN r.message ELSE MsgPaymentFailed

\* sendPayment has settled: its locals are gone
PayReturn ==
  /\ payPc' = "none"
  /\ payArgs' = NoPayArgs
  /\ destinationExists' = TRUE
  /\ payEnvelope' = << >>
  /\ paySigned' = Absent
  /\ payCalls' = NoCalls

\* the catch block of the mounted form's submit handler
PayCatch(r) ==
  /\ status' = "error"
  /\ payError' = (IF payForm = "handleSend" THEN SendErrorMessage(r)
                                           ELSE SubmitErrorMessage(r))
  /\ PayReturn
  /\ UNCHANGED <<payForm, destination, amount, memo, balance, payTxHash,
                 validationErrors, refreshTrigger>>

PayFormUnchanged ==
  UNCHANGED <<payForm, destination, amount, memo, balance, status, payTxHash, payError,
              validationErrors, refreshTrigger>>

PayOthersUnchanged ==
  UNCHANGED <<shellVars, activeTab, contractId, swapFormVars, swapRunVars, recTasks>>

(***************************************************************************)
(* stellar.sendPayment                                                     *)
(***************************************************************************)
PaymentOp(dest, amt) == [type |-> "payment", destination |-> dest, amount |-> amt]
CreateAccountOp(dest, amt) ==
  [type |-> "createAccount", destination |-> dest, startingBalance |-> amt]

\* Variant: the createAccount branch is missing.
PaymentOperationsNoCreate(exists, dest, amt) == << PaymentOp(dest, amt) >>

\* the operation sendPayment adds, by destinationExists
PaymentOperations(exists, dest, amt) ==
  IF exists THEN << PaymentOp(dest, amt) >> ELSE << CreateAccountOp(dest, amt) >>

\* Step 1 returned: step 2, server.loadAccount(destinationAddress), is issued
PayLoadSourceOk ==
  /\ payPc = "loadSource"
  /\ payPc' = "loadDest"
  /\ payCalls' = [payCalls EXCEPT !.load = @ + 1]
  /\ UNCHANGED <<payArgs, destinationExists, payEnvelope, paySigned>>
  /\ PayFormUnchanged
  /\ PayOthersUnchanged

PayLoadSourceRaise(r) ==
  /\ payPc = "loadSource"
  /\ PayCatch(r)
  /\ PayOthersUnchanged

\* Operation.payment / Operation.createAccount raise on a destination that is
\* no public key and on an amount that is no positive number (createAccount
\* takes a zero starting balance).
OperationError(exists, dest, amt) ==
  IF ~isValidStellarAddress(dest) THEN MsgDestinationInvalid
  ELSE IF IsNaN(amt) \/ parseFloat(amt) < 0 \/ (exists /\ parseFloat(amt) = 0)
    THEN MsgAmountInvalid
  ELSE EmptyMsg

\* Step 2 settled with "ok" or "notFound" (Horizon has no account under a
\* string that is no address): steps 3 and 4, the envelope is built and
\* freighterApi.signTransaction is called
PayLoadDest(outcome) ==
  /\ payPc = "loadDest"
  /\ outcome = "ok" => isValidStellarAddress(payArgs.destination)
  /\ IF OperationError(outcome = "ok", payArgs.destination, payArgs.amount) # EmptyMsg
       THEN PayCatch(Err(OperationError(outcome = "ok", payArgs.destination,
                                        payArgs.amount)))
       ELSE /\ destinationExists' = (outcome = "ok")
            /\ payEnvelope' = PaymentOperations(outcome = "ok", payArgs.destination,
                                                payArgs.amount)
            /\ payPc' = "sign"
            /\ payCalls' = [payCalls EXCEPT !.sign = @ + 1]
            /\ UNCHANGED <<payArgs, paySigned>>
            /\ PayFormUnchanged
  /\ PayOthersUnchanged

\* Step 2 raised something other than NotFoundError
PayLoadDestRaise(r) ==
  /\ payPc = "loadDest"
  /\ PayCatch(r)
  /\ PayOthersUnchanged

\* sendPayment's signing block, from the wallet's outcome
PaySignResult(outcome) ==
  IF outcome.kind = "raise" THEN Throw(ClassifySignError(outcome.raised))
  ELSE LET signResult == outcome.response
           signedXDR == extractSignedXDR(signResult)
       IN IF signResult.type = "object" /\ signResult.hasError
            THEN Throw(ClassifySignError(Err(
                   IF signResult.error # EmptyMsg THEN signResult.error
                                                  ELSE MsgSigningFailed)))
          ELSE IF Falsy(signedXDR) THEN Throw(Err(MsgNoSignedFreighter))
          ELSE Ok(signedXDR)

\* freighterApi.signTransaction settled: step 5, parse and submit
PaySign(outcome) ==
  /\ payPc = "sign"
  /\ LET res == PaySignResult(outcome)
     IN IF ~res.ok
          THEN PayCatch(res.raised)
        ELSE IF ~FromXdrOk(res.value)
          THEN PayCatch(Err(MsgMalformedXdr))
        ELSE /\ paySigned' = res.value
             /\ payPc' = "submit"
             /\ payCalls' = [payCalls EXCEPT !.submit = @ + 1]
             /\ UNCHANGED <<payArgs, destinationExists, payEnvelope>>
             /\ PayFormUnchanged
  /\ PayOthersUnchanged

\* server.submitTransaction returned: the success branch of the mounted
\* form's handler, and App.handlePaymentSuccess
PaySubmitOk(hash) ==
  /\ payPc = "submit"
  /\ PayReturn
  /\ status' = "success"
  /\ refreshTrigger' = refreshTrigger + 1
  /\ IF payForm = "handleSend"
       THEN /\ amount' = ""
            /\ memo' = ""
            /\ UNCHANGED <<destination, payTxHash>>
       ELSE /\ payTxHash' = hash
            /\ destination' = ""
            /\ amount' = ""
            /\ UNCHANGED memo
  /\ UNCHANGED <<payForm, balance, payError, validationErrors>>
  /\ PayOthersUnchanged

\* Variant: a rejected submission is submitted again.
PaySubmitRetried(r) ==
  /\ payPc = "submit"
  /\ payCalls' = [payCalls EXCEPT !.submit = @ + 1]
  /\ UNCHANGED <<payPc, payArgs, destinationExists, payEnvelope, paySigned>>
  /\ PayFormUnchanged
  /\ PayOthersUnchanged

\* server.submitTransaction raised
PaySubmitRaise(r) ==
  /\ payPc = "submit"
  /\ PayCatch(r)
  /\ PayOthersUnchanged


(***************************************************************************)
(* The wallet extension's answers (freighter-api).                         *)
(***************************************************************************)
\* The optional functions of the installed freighter-api ('x' in freighterApi).
ApiLegacy == {"getPublicKey"}
ApiV2 == {"requestAccess", "getAddress"}
ApiBoth == {"requestAccess", "getAddress", "getPublicKey"}
Apis == {ApiLegacy, ApiV2, ApiBoth}

\* What a rejected wallet promise carries when nothing reads it.
WalletUnavailable == Err(<<"Extension", "not", "responding">>)

\* Answers of isConnected / isAllowed / setAllowed: a bare boolean, an object
\* carrying one field (key) with a value that is or is not true, or null.
BoolResponses(key) ==
  [type : {"boolean"}, bool : BOOLEAN, key : {Absent}, val : {FALSE}]
  \cup
  [type : {"object"}, bool : {FALSE}, key : {key, "error", Absent}, val : BOOLEAN]
  \cup
  [type : {"null"}, bool : {FALSE}, key : {Absent}, val : {FALSE}]
NullBool == [type |-> "null", bool |-> FALSE, key |-> Absent, val |-> FALSE]
BoolOutcomes(key) ==
  [kind : {"response"}, response : BoolResponses(key), raised : {NonError}]
  \cup
  {[kind |-> "raise", response |-> NullBool, raised |-> WalletUnavailable]}

\* extractBooleanResult(result, key)
extractBooleanResult(result, key) ==
  IF result.type = "boolean" THEN result.bool
  ELSE IF result.type = "object" /\ result.key = key THEN result.val = TRUE
  ELSE FALSE

\* Answers of requestAccess / getAddress / getPublicKey: a bare string, an
\* object whose address and publicKey fields are a string or not (Absent),
\* or null.
OtherKey == "GOTHER"
AddressResponses ==
  [type : {"string"}, str : {"", PublicKey}, address : {Absent}, publicKey : {Absent}]
  \cup
  [type : {"object"}, str : {""}, address : {Absent, "", PublicKey},
   publicKey : {Absent, "", OtherKey}]
  \cup
  [type : {"null"}, str : {""}, address : {Absent}, publicKey : {Absent}]
NullAddress == [type |-> "null", str |-> "", address |-> Absent, publicKey |-> Absent]
AddressOutcomes ==
  [kind : {"response"}, response : AddressResponses, raised : {NonError}]
  \cup
  {[kind |-> "raise", response |-> NullAddress, raised |-> WalletUnavailable]}

\* extractAddress: the bare string, then address, then publicKey; the first
\* that is a string is returned, the empty string included.  Absent is null.
extractAddress(result) ==
  IF result.type = "string" THEN result.str
  ELSE IF result.type = "object" THEN
    IF result.address # Absent THEN result.address
    ELSE IF result.publicKey # Absent THEN result.publicKey
    ELSE Absent
  ELSE Absent

\* Answers of getNetwork.
NETWORK_PASSPHRASE == "Test SDF Network ; September 2015"
PublicPassphrase == "Public Global Stellar Network ; September 2015"
NetworkResponses ==
  [type : {"string"}, str : {"", NETWORK_PASSPHRASE, PublicPassphrase},
   networkPassphrase : {Absent}, network : {Absent}]
  \cup
  [type : {"object"}, str : {""},
   networkPassphrase : {Absent, NETWORK_PASSPHRASE, PublicPassphrase},
   network : {Absent, "TESTNET"}]
  \cup
  [type : {"null"}, str : {""}, networkPassphrase : {Absent}, network : {Absent}]
NullNetwork ==
  [type |-> "null", str |-> "", networkPassphrase |-> Absent, network |-> Absent]
NetworkOutcomes ==
  [kind : {"response"}, response : NetworkResponses, raised : {NonError}]
  \cup
  {[kind |-> "raise", response |-> NullNetwork, raised |-> WalletUnavailable]}

\* extractNetworkPassphrase: the bare string, then networkPassphrase, then
\* network.
extractNetworkPassphrase(result) ==
  IF result.type = "string" THEN result.str
  ELSE IF result.type = "object" THEN
    IF result.networkPassphrase # Absent THEN result.networkPassphrase
    ELSE IF result.network # Absent THEN result.network
    ELSE Absent
  ELSE Absent

(***************************************************************************)
(* useWallet: checkConnection, connect, disconnect.  One action is the     *)
(* handler up to its first await, or the continuation of an awaited wallet *)
(* call.  WalletConnect renders the connect button while no key is         *)
(* connected and disables it while isLoading; it renders the disconnect    *)
(* button while a key is connected.                                        *)
(***************************************************************************)
MsgNotDetected ==
  <<"Freighter", "wallet", "not", "detected.", "Please", "install", "from",
    "freighter.app", "and", "refresh.">>
MsgConnectionRejected ==
  <<"Connection", "was", "rejected.", "Please", "approve", "in", "your", "wallet.">>
MsgFailedToConnect == <<"Failed", "to", "connect.", "Please", "try", "again.">>
MsgFailedToConnectWallet == <<"Failed", "to", "connect", "wallet.">>
MsgSwitchTestnet ==
  <<"Please", "switch", "to", "TESTNET", "in", "your", "wallet", "settings">>

WalletOthersUnchanged == UNCHANGED <<appVars, formVars, localSwaps, call, feedVars>>

\* the state the hook returns after the step
WalletState(key, connected, installed, loading, err, networkOk, name) ==
  /\ publicKey' = key
  /\ walletConnected' = connected
  /\ freighterInstalled' = installed
  /\ isLoading' = loading
  /\ error' = err
  /\ isCorrectNetwork' = networkOk
  /\ walletName' = name

\* the attempt issues the wallet call next and awaits it
WalletAwait(next) ==
  /\ walletPc' = next
  /\ walletCalls' = Append(walletCalls, next)
  /\ UNCHANGED <<checkTimer, api, walletOp>>

\* the attempt returns; walletCalls keeps the calls it issued until the
\* next attempt starts
WalletReturn ==
  /\ walletOp' = "none"
  /\ walletPc' = "none"
  /\ UNCHANGED <<checkTimer, api, walletCalls>>

\* {isConnected && publicKey ? <connected view> : <connect button>}
ConnectedView == walletConnected /\ ~Falsy(publicKey)

\* The mount effect's timer fires: checkConnection up to isConnected().
checkConnection ==
  /\ checkTimer
  /\ checkTimer' = FALSE
  /\ walletOp' = "checkConnection"
  /\ walletPc' = "isConnected"
  /\ walletCalls' = << "isConnected" >>
  /\ WalletState(publicKey, walletConnected, freighterInstalled, TRUE, NullMsg,
                 isCorrectNetwork, walletName)
  /\ UNCHANGED api
  /\ WalletOthersUnchanged

\* A click on the connect button: connect up to isConnected().
connect ==
  /\ ~ConnectedView
  /\ ~isLoading
  /\ walletOp' = "connect"
  /\ walletPc' = "isConnected"
  /\ walletCalls' = << "isConnected" >>
  /\ WalletState(publicKey, walletConnected, freighterInstalled, TRUE, NullMsg,
                 isCorrectNetwork, walletName)
  /\ UNCHANGED <<checkTimer, api>>
  /\ WalletOthersUnchanged

\* Variant: disconnect clears the address but not the connected flag.
DisconnectKeepsFlag ==
  /\ ConnectedView
  /\ WalletState(Absent, walletConnected, freighterInstalled, isLoading, NullMsg, TRUE, "")
  /\ UNCHANGED walletRunVars
  /\ WalletOthersUnchanged

\* A click on the disconnect button.
disconnect ==
  /\ ConnectedView
  /\ WalletState(Absent, FALSE, freighterInstalled, isLoading, NullMsg, TRUE, "")
  /\ UNCHANGED walletRunVars
  /\ WalletOthersUnchanged

\* Variant: connect goes to setAllowed without trying requestAccess.
AfterInstalledLegacy == "setAllowed"

\* connect after the installed check: requestAccess when the api has it,
\* else setAllowed
AfterInstalled == IF "requestAccess" \in api THEN "requestAccess" ELSE "setAllowed"

\* getWalletAddress has no address to return: checkConnection clears the
\* connection, connect only leaves its try block; finally isLoading is reset.
WalletNoAddress ==
  /\ IF walletOp = "checkConnection"
       THEN WalletState(Absent, FALSE, freighterInstalled, FALSE, error,
                        isCorrectNetwork, walletName)
       ELSE WalletState(publicKey, walletConnected, freighterInstalled, FALSE, error,
                        isCorrectNetwork, walletName)
  /\ WalletReturn

\* getWalletAddress up to its first await
WalletGetWalletAddress ==
  IF "getAddress" \in api
    THEN /\ WalletAwait("getAddress")
         /\ UNCHANGED walletStateVars
  ELSE IF "getPublicKey" \in api
    THEN /\ WalletAwait("getPublicKey")
         /\ UNCHANGED walletStateVars
  ELSE WalletNoAddress

\* an address was obtained: it is stored and checkNetwork awaits getNetwork
WalletAddressStored(address) ==
  /\ WalletState(address, TRUE, freighterInstalled, isLoading, error,
                 isCorrectNetwork, "Freighter")
  /\ WalletAwait("getNetwork")

\* freighterApi.isConnected() settled
WalletIsConnected(outcome) ==
  /\ walletPc = "isConnected"
  /\ IF outcome.kind = "raise"
       THEN /\ IF walletOp = "checkConnection"
                 THEN WalletState(Absent, FALSE, FALSE, FALSE, error, isCorrectNetwork,
                                  walletName)
                 ELSE WalletState(publicKey, walletConnected, freighterInstalled, FALSE,
                                  MsgFailedToConnectWallet, isCorrectNetwork, walletName)
            /\ WalletReturn
     ELSE IF ~extractBooleanResult(outcome.response, "isConnected")
       THEN /\ IF walletOp = "checkConnection"
                 THEN WalletState(Absent, FALSE, FALSE, FALSE, error, isCorrectNetwork,
                                  walletName)
                 ELSE WalletState(publicKey, walletConnected, FALSE, FALSE,
                                  MsgNotDetected, isCorrectNetwork, walletName)
            /\ WalletReturn
     ELSE /\ WalletState(publicKey, walletConnected, TRUE, isLoading, error,
                         isCorrectNetwork, walletName)
          /\ WalletAwait(IF walletOp = "checkConnection" THEN "isAllowed"
                                                         ELSE AfterInstalled)
  /\ WalletOthersUnchanged

\* freighterApi.isAllowed() settled (checkConnection)
WalletIsAllowed(outcome) ==
  /\ walletPc = "isAllowed"
  /\ IF outcome.kind = "raise"
       THEN /\ WalletState(Absent, FALSE, FALSE, FALSE, error, isCorrectNetwork,
                           walletName)
            /\ WalletReturn
     ELSE IF extractBooleanResult(outcome.response, "isAllowed")
       THEN WalletGetWalletAddress
     ELSE WalletNoAddress
  /\ WalletOthersUnchanged

\* requestAccess() settled (connect): an address, or the fallback
WalletRequestAccess(outcome) ==
  /\ walletPc = "requestAccess"
  /\ LET address == IF outcome.kind = "response"
                      THEN extractAddress(outcome.response) ELSE Absent
     IN IF ~Falsy(address)
          THEN WalletAddressStored(address)
          ELSE /\ WalletAwait("setAllowed")
               /\ UNCHANGED walletStateVars
  /\ WalletOthersUnchanged

\* freighterApi.setAllowed() settled (connect)
WalletSetAllowed(outcome) ==
  /\ walletPc = "setAllowed"
  /\ IF outcome.kind = "raise"
       THEN /\ WalletState(publicKey, walletConnected, freighterInstalled, FALSE,
                           MsgFailedToConnect, isCorrectNetwork, walletName)
            /\ WalletReturn
     ELSE IF extractBooleanResult(outcome.response, "isAllowed")
       THEN WalletGetWalletAddress
     ELSE /\ WalletState(publicKey, walletConnected, freighterInstalled, FALSE,
                         MsgConnectionRejected, isCorrectNetwork, walletName)
          /\ WalletReturn
  /\ WalletOthersUnchanged

\* getAddress() settled (getWalletAddress)
WalletGetAddress(outcome) ==
  /\ walletPc = "getAddress"
  /\ LET address == IF outcome.kind = "response"
                      THEN extractAddress(outcome.response) ELSE Absent
     IN IF ~Falsy(address) THEN WalletAddressStored(address)
        ELSE IF "getPublicKey" \in api
          THEN /\ WalletAwait("getPublicKey")
               /\ UNCHANGED walletStateVars
        ELSE WalletNoAddress
  /\ WalletOthersUnchanged

\* getPublicKey() settled (getWalletAddress)
WalletGetPublicKey(outcome) ==
  /\ walletPc = "getPublicKey"
  /\ LET address == IF outcome.kind = "response"
                      THEN extractAddress(outcome.response) ELSE Absent
     IN IF ~Falsy(address) THEN WalletAddressStored(address) ELSE WalletNoAddress
  /\ WalletOthersUnchanged

\* freighterApi.getNetwork() settled: the rest of checkNetwork, then the
\* caller's setIsLoading(false) and return.
WalletGetNetwork(outcome) ==
  /\ walletPc = "getNetwork"
  /\ IF outcome.kind = "raise"
       THEN WalletState(publicKey, walletConnected, freighterInstalled, FALSE, error,
                        isCorrectNetwork, walletName)
       ELSE LET passphrase == extractNetworkPassphrase(outcome.response)
                isTestnet == passphrase = NETWORK_PASSPHRASE
            IN WalletState(publicKey, walletConnected, freighterInstalled, FALSE,
                           IF ~isTestnet /\ ~Falsy(passphrase) THEN MsgSwitchTestnet
                                                               ELSE error,
                           isTestnet, walletName)
  /\ WalletReturn
  /\ WalletOthersUnchanged

(***************************************************************************)
(* SwapActivityFeed, sorobanClient.getRecentSwaps and pollSwapEvents.      *)
(* Paging tokens are numbered in ledger order; the empty cursor is 0.      *)
(* The contract's swap log holds one event per recorded swap, and an       *)
(* event's timestamp is its ledger's.                                      *)
(***************************************************************************)
FeedCap == 50          \* .slice(0, 50)
EventLimit == 20       \* getEvents limit
RecentCount == 20      \* getRecentSwaps(20)

\* cursorRef's initial value '': no paging token seen yet
NoCursor == 0

\* String(val[0]).substring(0, 10) + '...'
EventUser == "GSELF..."

\* The i-th event of the contract's log, as getEvents returns it.
LogEvent(i) ==
  [pagingToken |-> i,
   value |-> SwapRecord(EventUser, "XLM", "USDC", "5", i, Absent)]

\* How many events or records an answer holds: none, a few, a full page.
BatchSizes == {0, 2, EventLimit}

\* sorobanServer.getEvents({startLedger, filters, limit}): the request
\* carries no cursor.  With startLedger 1 the server answers with the first
\* events of the log, oldest first, at most limit of them, or the call
\* raises; with startLedger undefined the server has nowhere to start from
\* and the call raises.
GetEventsAnswers(startLedger) ==
  {[kind |-> "raise", events |-> << >>]}
  \cup
  (IF startLedger = 1
     THEN { [kind |-> "response", events |-> [i \in 1..k |-> LogEvent(i)]] :
              k \in BatchSizes }
     ELSE {})

\* startLedger: cursor ? undefined : 1 (undefined is 0)
NoStartLedger == 0
StartLedger(cursor) == IF cursor # NoCursor THEN NoStartLedger ELSE 1

\* latestCursor = event.pagingToken || latestCursor, over response.events
RECURSIVE LatestCursor(_, _)
LatestCursor(events, latestCursor) ==
  IF events = << >> THEN latestCursor
  ELSE LatestCursor(Tail(events),
                    IF Head(events).pagingToken # NoCursor THEN Head(events).pagingToken
                                                           ELSE latestCursor)

\* pollSwapEvents(cursor) after getEvents settled
pollSwapEvents(cursor, answer) ==
  IF answer.kind = "raise" THEN [events |-> << >>, latestCursor |-> cursor]
  ELSE [events |-> [i \in 1..Len(answer.events) |-> answer.events[i].value],
        latestCursor |-> LatestCursor(answer.events, cursor)]

\* What getRecentSwaps(20) resolves to: the empty list on every failure
\* (it never rejects), else the latest records of the contract, which
\* returns them latest first and at most count of them.
RecentSwapsAnswers ==
  { [i \in 1..k |-> SwapRecord(PublicKey, "XLM", "USDC", "5", k + 1 - i, Absent)] :
      k \in {n \in BatchSizes : n <= RecentCount} }

\* Array.prototype.slice(0, n)
Slice(seq, n) == SubSeq(seq, 1, Min(n, Len(seq)))

\* Variant: the merged list is not cut.
AllSwapsUncut == SortByTimestampDesc(localSwaps) \o contractSwaps

\* allSwaps: the list SwapActivityFeed renders
AllSwaps == Slice(SortByTimestampDesc(localSwaps) \o contractSwaps, FeedCap)

isContractDeployed == contractId # PLACEHOLDER_CONTRACT_ID

FeedOthersUnchanged == UNCHANGED <<activeTab, contractId, formVars, walletVars, call>>

\* loadSwaps up to await getRecentSwaps(20)
loadSwaps ==
  IF isContractDeployed
    THEN /\ feedIsLoading' = TRUE
         /\ feedLoads' = feedLoads + 1
    ELSE UNCHANGED <<feedIsLoading, feedLoads>>

\* The swap form reports a success: App.handleSwapSuccess, and the feed's
\* load effect runs for the new refreshTrigger.  The swap data is any
\* value the handler's signature admits.
FeedSwapSuccess(swapData, now) ==
  /\ refreshTrigger < MaxRefresh
  /\ handleSwapSuccess(swapData, now)
  /\ loadSwaps
  /\ UNCHANGED <<contractSwaps, feedError, cursorRef, feedPolls>>
  /\ FeedOthersUnchanged

\* getRecentSwaps(20) resolved: the rest of loadSwaps
FeedLoadResolve(records) ==
  /\ feedLoads > 0
  /\ contractSwaps' = records
  /\ feedError' = NullMsg
  /\ feedIsLoading' = FALSE
  /\ feedLoads' = feedLoads - 1
  /\ UNCHANGED <<cursorRef, feedPolls, localSwaps, refreshTrigger>>
  /\ FeedOthersUnchanged

\* A pollForUpdates call in flight: the cursor pollSwapEvents was given.
Poll(cursor) == [cursor |-> cursor]

\* The 10 s interval fires: pollForUpdates up to getEvents.
FeedPollStart ==
  /\ isContractDeployed
  /\ BagCardinality(feedPolls) < MaxFeedPolls
  /\ feedPolls' = feedPolls (+) SetToBag({Poll(cursorRef)})
  /\ UNCHANGED <<contractSwaps, feedIsLoading, feedError, cursorRef, feedLoads,
                 localSwaps, refreshTrigger>>
  /\ FeedOthersUnchanged

\* getEvents settled: the rest of pollSwapEvents and of pollForUpdates
FeedPollResolve(poll, answer) ==
  /\ BagIn(poll, feedPolls)
  /\ answer \in GetEventsAnswers(StartLedger(poll.cursor))
  /\ feedPolls' = feedPolls (-) SetToBag({poll})
  /\ LET polled == pollSwapEvents(poll.cursor, answer)
     IN IF Len(polled.events) > 0
          THEN /\ contractSwaps' = Slice(polled.events \o contractSwaps, FeedCap)
               /\ cursorRef' = polled.latestCursor
          ELSE UNCHANGED <<contractSwaps, cursorRef>>
  /\ UNCHANGED <<feedIsLoading, feedError, feedLoads, localSwaps, refreshTrigger>>
  /\ FeedOthersUnchanged

(***************************************************************************)
(* walletKit.ts, and one call of a wallet function followed on its own.    *)
(* The functions hold no state: a call is run to completion against a      *)
(* script, the answer the wallet gives to each request.                    *)
(***************************************************************************)
MsgKitSigningFailed == <<"Signing", "failed">>
MsgKitNoSigned == <<"No", "signed", "transaction", "returned">>
MsgKitRejected == <<"Wallet", "connection", "was", "rejected">>
MsgKitNoAddress == <<"Could", "not", "get", "wallet", "address">>

\* walletKit.signTransaction: no catch block, what the wallet raises
\* propagates as it is.
kitSignTransaction(outcome) ==
  IF outcome.kind = "raise" THEN Throw(outcome.raised)
  ELSE LET signResult == outcome.response
       IN IF signResult.type = "object" /\ signResult.hasError
            THEN Throw(Err(IF signResult.error # EmptyMsg THEN signResult.error
                                                          ELSE MsgKitSigningFailed))
          ELSE LET signed == extractSignedXDR(signResult)
               IN IF Falsy(signed) THEN Throw(Err(MsgKitNoSigned)) ELSE Ok(signed)

\* walletKit.isWalletInstalled
isWalletInstalled(outcome) ==
  IF outcome.kind = "raise" THEN FALSE
  ELSE extractBooleanResult(outcome.response, "isConnected")

\* walletKit.getWalletAddress: the calls it issues and the address it
\* returns (Absent is null).
getWalletAddress(apiSet, script) ==
  LET tryAddress == "getAddress" \in apiSet
      fromAddress == IF tryAddress /\ script.address.kind = "response"
                       THEN extractAddress(script.address.response) ELSE Absent
      tryKey == "getPublicKey" \in apiSet /\ Falsy(fromAddress)
      fromKey == IF tryKey /\ script.key.kind = "response"
                   THEN extractAddress(script.key.response) ELSE Absent
  IN [calls |-> (IF tryAddress THEN << "getAddress" >> ELSE << >>)
                \o (IF tryKey THEN << "getPublicKey" >> ELSE << >>),
      result |-> Ok(IF ~Falsy(fromAddress) THEN fromAddress
                    ELSE IF ~Falsy(fromKey) THEN fromKey
                    ELSE Absent)]

\* walletKit.connectWallet: the calls it issues and how it settles.
connectWallet(apiSet, script) ==
  LET tryAccess == "requestAccess" \in apiSet
      fromAccess == IF tryAccess /\ script.access.kind = "response"
                      THEN extractAddress(script.access.response) ELSE Absent
      accessCalls == IF tryAccess THEN << "requestAccess" >> ELSE << >>
  IN IF ~Falsy(fromAccess) THEN [calls |-> accessCalls, result |-> Ok(fromAccess)]
     ELSE IF script.allowed.kind = "raise"
       THEN [calls |-> accessCalls \o << "setAllowed" >>,
             result |-> Throw(script.allowed.raised)]
     ELSE IF ~extractBooleanResult(script.allowed.response, "isAllowed")
       THEN [calls |-> accessCalls \o << "setAllowed" >>,
             result |-> Throw(Err(MsgKitRejected))]
     ELSE LET got == getWalletAddress(apiSet, script)
          IN [calls |-> accessCalls \o << "setAllowed" >> \o got.calls,
              result |-> IF Falsy(got.result.value) THEN Throw(Err(MsgKitNoAddress))
                                                    ELSE got.result]

\* A script: what the wallet answers to signTransaction, isConnected,
\* requestAccess, setAllowed, getAddress and getPublicKey.
NullSign == CHOOSE o \in SignOutcomes : o.kind = "response" /\ o.response.type = "null"
NoScript ==
  [sign |-> NullSign,
   connected |-> [kind |-> "response", response |-> NullBool, raised |-> NonError],
   access |-> [kind |-> "response", response |-> NullAddress, raised |-> NonError],
   allowed |-> [kind |-> "response", response |-> NullBool, raised |-> NonError],
   address |-> [kind |-> "response", response |-> NullAddress, raised |-> NonError],
   key |-> [kind |-> "response", response |-> NullAddress, raised |-> NonError]]

\* A call: the function, the installed api, the script, and once it has run
\* (done) the wallet calls it issued, the string it returned or what it
\* raised, and for isWalletInstalled the boolean it returned.
Call(fn, apiSet, script) ==
  [fn |-> fn, api |-> apiSet, script |-> script, done |-> FALSE, calls |-> << >>,
   result |-> Ok(Absent), returned |-> FALSE]
NoCall == Call("none", ApiV2, NoScript)

SignCalls ==
  { Call(fn, ApiV2, [NoScript EXCEPT !.sign = o]) :
      fn \in {"useWallet.signTransaction", "walletKit.signTransaction"},
      o \in SignOutcomes }
ExtractCalls ==
  { Call("extractAddress", ApiV2,
         [NoScript EXCEPT !.address = [kind |-> "response", response |-> r,
                                       raised |-> NonError]]) :
      r \in AddressResponses }
InstalledCalls ==
  { Call("walletKit.isWalletInstalled", ApiV2, [NoScript EXCEPT !.connected = o]) :
      o \in BoolOutcomes("isConnected") }
AddressCalls ==
  { Call("walletKit.getWalletAddress", a, [NoScript EXCEPT !.address = x, !.key = k]) :
      a \in Apis, x \in AddressOutcomes, k \in AddressOutcomes }
\* the answers to getAddress / getPublicKey that tell connectWallet's paths
\* apart: no address, an address, a raise
ConnectAddressOutcomes ==
  { o \in AddressOutcomes : o.kind = "raise" \/ o.response.type # "object" }
ConnectCalls ==
  { Call("walletKit.connectWallet", a,
         [NoScript EXCEPT !.access = q, !.allowed = s, !.address = x, !.key = k]) :
      a \in Apis, q \in AddressOutcomes, s \in BoolOutcomes("isAllowed"),
      x \in ConnectAddressOutcomes, k \in ConnectAddressOutcomes }

CallOthersUnchanged == UNCHANGED <<appVars, formVars, localSwaps, walletVars, feedVars>>

\* The call settles with the wallet calls it issued and its result.
Settle(calls, result, returned) ==
  /\ ~call.done
  /\ call' = [call EXCEPT !.done = TRUE, !.calls = calls, !.result = result,
                          !.returned = returned]
  /\ CallOthersUnchanged

CallHookSignTransaction ==
  /\ call.fn = "useWallet.signTransaction"
  /\ Settle(<< "signTransaction" >>, signTransaction(call.script.sign), FALSE)

CallKitSignTransaction ==
  /\ call.fn = "walletKit.signTransaction"
  /\ Settle(<< "signTransaction" >>, kitSignTransaction(call.script.sign), FALSE)

CallExtractAddress ==
  /\ call.fn = "extractAddress"
  /\ Settle(<< >>, Ok(extractAddress(call.script.address.response)), FALSE)

CallIsWalletInstalled ==
  /\ call.fn = "walletKit.isWalletInstalled"
  /\ Settle(<< "isConnected" >>, Ok(Absent), isWalletInstalled(call.script.connected))

CallGetWalletAddress ==
  /\ call.fn = "walletKit.getWalletAddress"
  /\ LET run == getWalletAddress(call.api, call.script)
     IN Settle(run.calls, run.result, FALSE)

CallConnectWallet ==
  /\ call.fn = "walletKit.connectWallet"
  /\ LET run == connectWallet(call.api, call.script)
     IN Settle(run.calls, run.result, FALSE)

(***************************************************************************)
(* sorobanClient.ts, one call of recordSwap, getRecentSwaps or             *)
(* pollSwapEvents followed on its own from its first line to its return or *)
(* raise, with every request it sends to the Soroban server or the wallet. *)
(***************************************************************************)
MsgSimulationFailed == <<"Simulation", "failed">>
MsgFailedToSend == <<"Failed", "to", "send", "contract", "transaction">>
MsgContractTxFailed(getStatus) == <<"Contract", "tx", "failed:", getStatus>>

\* recordSwap's early result / the values no answer has given yet
NoContract == "no-contract"
NoStatus == "<none>"

\* A call: the function and the cursor it was given (pollSwapEvents), the
\* request it awaits (pc), the requests sent so far, sendResponse's status
\* and hash, the latest getResponse.status and how many times it was
\* NOT_FOUND, and once the call has ended (done) the string it returned or
\* what it raised, the list it returned and the cursor it returned.
ClientCall(fn, cursor) ==
  [fn |-> fn, cursor |-> cursor, pc |-> "start", calls |-> << >>, sent |-> NoStatus,
   hash |-> NoHash, status |-> NoStatus, polls |-> 0, done |-> FALSE,
   result |-> Ok(Absent), list |-> << >>, latestCursor |-> NoCursor]

\* the cursors a caller passes: none yet, or a paging token
Cursors == {NoCursor, 2}

ClientCalls ==
  {ClientCall("recordSwap", NoCursor), ClientCall("getRecentSwaps", NoCursor)}
  \cup {ClientCall("pollSwapEvents", c) : c \in Cursors}

\* the call sends a request and awaits its answer
ClientAwait(request) ==
  call' = [call EXCEPT !.pc = request, !.calls = Append(@, request)]

\* the call returns a string or raises
ClientSettle(result) ==
  call' = [call EXCEPT !.pc = "done", !.done = TRUE, !.result = result]

\* the call returns a list, and for pollSwapEvents a cursor
ClientReturnList(list, latestCursor) ==
  call' = [call EXCEPT !.pc = "done", !.done = TRUE, !.list = list,
                       !.latestCursor = latestCursor]

\* Variant: recordSwap does not look at the contract id.
RecordSwapUnchecked ==
  /\ call.fn = "recordSwap"
  /\ call.pc = "start"
  /\ ClientAwait("getAccount")
  /\ CallOthersUnchanged

\* recordSwap up to its first await
recordSwap ==
  /\ call.fn = "recordSwap"
  /\ call.pc = "start"
  /\ IF contractId = PLACEHOLDER_CONTRACT_ID
       THEN ClientSettle(Ok(NoContract))
       ELSE ClientAwait("getAccount")
  /\ CallOthersUnchanged

\* getRecentSwaps up to its first await
getRecentSwaps ==
  /\ call.fn = "getRecentSwaps"
  /\ call.pc = "start"
  /\ IF contractId = PLACEHOLDER_CONTRACT_ID
       THEN ClientReturnList(<< >>, NoCursor)
       ELSE ClientAwait("getAccount")
  /\ CallOthersUnchanged

\* pollSwapEvents up to its first await; cursor || '' is the cursor
pollSwapEventsStart ==
  /\ call.fn = "pollSwapEvents"
  /\ call.pc = "start"
  /\ IF contractId = PLACEHOLDER_CONTRACT_ID
       THEN ClientReturnList(<< >>, call.cursor)
       ELSE ClientAwait("getEvents")
  /\ CallOthersUnchanged

\* sorobanServer.getAccount settled: the account, or a raise r.  recordSwap
\* rethrows what is raised, getRecentSwaps returns the empty list.
ClientGetAccount(ok, r) ==
  /\ call.fn \in {"recordSwap", "getRecentSwaps"}
  /\ call.pc = "getAccount"
  /\ IF ok THEN ClientAwait("simulateTransaction")
     ELSE IF call.fn = "recordSwap" THEN ClientSettle(Throw(r))
     ELSE ClientReturnList(<< >>, NoCursor)
  /\ CallOthersUnchanged

\* sorobanServer.simulateTransaction settled for recordSwap: "ok",
\* "simulationError", or "raise" with r
ClientSimulateRecord(outcome, r) ==
  /\ call.fn = "recordSwap"
  /\ call.pc = "simulateTransaction"
  /\ IF outcome = "ok" THEN ClientAwait("signTx")
     ELSE IF outcome = "simulationError" THEN ClientSettle(Throw(Err(MsgSimulationFailed)))
     ELSE ClientSettle(Throw(r))
  /\ CallOthersUnchanged

\* sorobanServer.simulateTransaction settled for getRecentSwaps: the
\* records of the return value, or the empty list for a raise, a
\* simulation error and a missing result alike
ClientSimulateRecent(records) ==
  /\ call.fn = "getRecentSwaps"
  /\ call.pc = "simulateTransaction"
  /\ ClientReturnList(records, NoCursor)
  /\ CallOthersUnchanged

\* signTx(preparedTx.toXDR()) settled, then fromXDR and sendTransaction
ClientSignTx(outcome) ==
  /\ call.fn = "recordSwap"
  /\ call.pc = "signTx"
  /\ LET res == signTransaction(outcome)
     IN IF ~res.ok THEN ClientSettle(res)
        ELSE IF ~FromXdrOk(res.value) THEN ClientSettle(Throw(Err(MsgMalformedXdr)))
        ELSE ClientAwait("sendTransaction")
  /\ CallOthersUnchanged

\* Variant: a submission answered with status ERROR is polled like any
\* other.
ClientSendAlwaysPolled(sendStatus, hash, r) ==
  /\ call.fn = "recordSwap"
  /\ call.pc = "sendTransaction"
  /\ IF sendStatus = "raise"
       THEN call' = [call EXCEPT !.pc = "done", !.done = TRUE, !.sent = sendStatus,
                                 !.result = Throw(r)]
       ELSE call' = [call EXCEPT !.pc = "getTransaction",
                                 !.calls = Append(@, "getTransaction"),
                                 !.sent = sendStatus, !.hash = hash]
  /\ CallOthersUnchanged

\* sorobanServer.sendTransaction settled: a status and hash, or "raise"
\* with r; then the first getTransaction(sendResponse.hash) is sent
ClientSendTransaction(sendStatus, hash, r) ==
  /\ call.fn = "recordSwap"
  /\ call.pc = "sendTransaction"
  /\ IF sendStatus = "raise"
       THEN call' = [call EXCEPT !.pc = "done", !.done = TRUE, !.sent = sendStatus,
                                 !.result = Throw(r)]
     ELSE IF sendStatus = "ERROR"
       THEN call' = [call EXCEPT !.pc = "done", !.done = TRUE, !.sent = sendStatus,
                                 !.result = Throw(Err(MsgFailedToSend))]
     ELSE call' = [call EXCEPT !.pc = "getTransaction",
                               !.calls = Append(@, "getTransaction"),
                               !.sent = sendStatus, !.hash = hash]
  /\ CallOthersUnchanged

\* Variant: the status is asked for at most twice; a second NOT_FOUND ends
\* the call.
ClientGetTransactionTwice(getStatus, r) ==
  /\ call.fn = "recordSwap"
  /\ call.pc = "getTransaction"
  /\ getStatus = "NOT_FOUND" => call.polls < MaxStatusPolls
  /\ IF getStatus = "NOT_FOUND" /\ call.polls < 1
       THEN call' = [call EXCEPT !.calls = Append(@, "getTransaction"),
                                 !.status = getStatus, !.polls = @ + 1]
     ELSE IF getStatus = "raise"
       THEN call' = [call EXCEPT !.pc = "done", !.done = TRUE, !.status = getStatus,
                                 !.result = Throw(r)]
     ELSE IF getStatus = "SUCCESS"
       THEN call' = [call EXCEPT !.pc = "done", !.done = TRUE, !.status = getStatus,
                                 !.result = Ok(call.hash)]
     ELSE call' = [call EXCEPT !.pc = "done", !.done = TRUE, !.status = getStatus,
                               !.result = Throw(Err(MsgContractTxFailed(getStatus)))]
  /\ CallOthersUnchanged

\* sorobanServer.getTransaction settled: a status, or "raise" with r.
\* NOT_FOUND waits 2 s and asks again, any number of times; the network
\* answers NOT_FOUND at most MaxStatusPolls times.
ClientGetTransaction(getStatus, r) ==
  /\ call.fn = "recordSwap"
  /\ call.pc = "getTransaction"
  /\ getStatus = "NOT_FOUND" => call.polls < MaxStatusPolls
  /\ IF getStatus = "NOT_FOUND"
       THEN call' = [call EXCEPT !.calls = Append(@, "getTransaction"),
                                 !.status = getStatus, !.polls = @ + 1]
     ELSE IF getStatus = "raise"
       THEN call' = [call EXCEPT !.pc = "done", !.done = TRUE, !.status = getStatus,
                                 !.result = Throw(r)]
     ELSE IF getStatus = "SUCCESS"
       THEN call' = [call EXCEPT !.pc = "done", !.done = TRUE, !.status = getStatus,
                                 !.result = Ok(call.hash)]
     ELSE call' = [call EXCEPT !.pc = "done", !.done = TRUE, !.status = getStatus,
                               !.result = Throw(Err(MsgContractTxFailed(getStatus)))]
  /\ CallOthersUnchanged

\* sorobanServer.getEvents settled: the rest of pollSwapEvents
ClientGetEvents(answer) ==
  /\ call.fn = "pollSwapEvents"
  /\ call.pc = "getEvents"
  /\ answer \in GetEventsAnswers(StartLedger(call.cursor))
  /\ LET polled == pollSwapEvents(call.cursor, answer)
     IN ClientReturnList(polled.events, polled.latestCursor)
  /\ CallOthersUnchanged

(***************************************************************************)
(* Specification.                                                          *)
(***************************************************************************)
\* A connected session: App renders the forms only when isConnected and
\* publicKey are set.  No connect or checkConnection is in flight.
WalletConnected ==
  /\ publicKey = PublicKey
  /\ walletConnected = TRUE
  /\ freighterInstalled = TRUE
  /\ isLoading = FALSE
  /\ error = NullMsg
  /\ isCorrectNetwork = TRUE
  /\ walletName = "Freighter"
  /\ checkTimer = FALSE
  /\ api = ApiV2
  /\ walletOp = "none"
  /\ walletPc = "none"
  /\ walletCalls = << >>

\* useState / useRef initial values of SwapActivityFeed, nothing in flight.
FeedIdle ==
  /\ contractSwaps = << >>
  /\ feedIsLoading = FALSE
  /\ feedError = NullMsg
  /\ cursorRef = NoCursor
  /\ feedLoads = 0
  /\ feedPolls = EmptyBag

\* useState initial values of the mounted form; the other form holds none.
FormsInit ==
  /\ activeTab \in {"swap", "send"}
  /\ refreshTrigger = 0
  /\ contractId \in (IF activeTab = "swap" THEN ContractIds ELSE {PLACEHOLDER_CONTRACT_ID})
  /\ sellAssetIndex = 0
  /\ buyAssetIndex = 1
  /\ sellAmount = ""
  /\ estimatedReceive = DecEmpty
  /\ bestPrice = DecEmpty
  /\ isLoadingPrice = FALSE
  /\ txStatus = "idle"
  /\ txHash = NoHash
  /\ txError = NullMsg
  /\ debounceArmed = (activeTab = "swap")
  /\ previews = EmptyBag
  /\ swapPc = "none"
  /\ swapArgs = NoSwapArgs
  /\ swapEnvelope = << >>
  /\ swapSigned = Absent
  /\ swapCalls = NoCalls
  /\ recTasks = EmptyBag
  /\ payForm \in (IF activeTab = "send" THEN {"handleSend", "handleSubmit"} ELSE {"none"})
  /\ destination = ""
  /\ amount = ""
  /\ memo = ""
  /\ balance \in (IF activeTab = "send" THEN Balances ELSE {"1"})
  /\ status = "idle"
  /\ payTxHash = NoHash
  /\ payError = NullMsg
  /\ validationErrors = NoValidationErrors
  /\ payPc = "none"
  /\ payArgs = NoPayArgs
  /\ destinationExists = TRUE
  /\ payEnvelope = << >>
  /\ paySigned = Absent
  /\ payCalls = NoCalls

\* The forms of a connected session; the wallet and the activity feed are
\* followed by WalletSpec and FeedSpec.
Init ==
  /\ FormsInit
  /\ localSwaps = << >>
  /\ WalletConnected
  /\ call = NoCall
  /\ FeedIdle

SwapFormNext ==
  \/ \E a \in SellAmounts : SetSellAmount(a)
  \/ \E idx \in AssetChoices : SelectSellAsset(idx)
  \/ \E idx \in AssetChoices : SelectBuyAsset(idx)
  \/ handleFlipAssets
  \/ DebounceFire
  \/ \E req \in BagToSet(previews), book \in Orderbooks, walkBook \in Orderbooks :
       PreviewResolve(req, book, walkBook)
  \/ \E req \in BagToSet(previews) : PreviewReject(req)
  \/ resetTx

SwapRunNext ==
  \/ handleSwap
  \/ \E balances \in Accounts : SwapLoadOk(balances)
  \/ \E r \in LoadRaised : SwapLoadRaise(r)
  \/ \E outcome \in SignOutcomes : SwapSign(outcome)
  \/ \E hash \in Hashes : SwapSubmitOk(hash)
  \/ \E r \in SubmitRaised : SwapSubmitRaise(r)

RecordNext ==
  \/ \E task \in BagToSet(recTasks), ok \in BOOLEAN : RecGetAccount(task, ok)
  \/ \E task \in BagToSet(recTasks), outcome \in {"ok", "simulationError", "raise"} :
       RecSimulate(task, outcome)
  \/ \E task \in BagToSet(recTasks), outcome \in SignOutcomes : RecSign(task, outcome)
  \/ \E task \in BagToSet(recTasks), sendStatus \in SendStatuses \cup {"raise"},
        hash \in Hashes :
       RecSend(task, sendStatus, hash)
  \/ \E task \in BagToSet(recTasks), getStatus \in GetStatuses \cup {"raise"} :
       RecPoll(task, getStatus)

PayFormNext ==
  \/ \E d \in Destinations : SetDestination(d)
  \/ \E a \in NumberStrings : SetAmount(a)
  \/ SetAmountMax
  \/ \E m \in Memos : SetMemo(m)
  \/ resetForm

PayRunNext ==
  \/ handleSend
  \/ handleSubmit
  \/ PayLoadSourceOk
  \/ \E r \in LoadRaised : PayLoadSourceRaise(r)
  \/ \E outcome \in {"ok", "notFound"} : PayLoadDest(outcome)
  \/ \E r \in LoadRaised : PayLoadDestRaise(r)
  \/ \E outcome \in SignOutcomes : PaySign(outcome)
  \/ \E hash \in Hashes : PaySubmitOk(hash)
  \/ \E r \in SubmitRaised \cup {NonError} : PaySubmitRaise(r)

Next == SwapFormNext \/ SwapRunNext \/ RecordNext \/ PayFormNext \/ PayRunNext

Spec == Init /\ [][Next]_vars

\* An awaited call of executeSwap settles: it returns or it raises.
SwapCallSettles ==
  \/ \E balances \in Accounts : SwapLoadOk(balances)
  \/ \E r \in LoadRaised : SwapLoadRaise(r)
  \/ \E outcome \in SignOutcomes : SwapSign(outcome)
  \/ \E hash \in Hashes : SwapSubmitOk(hash)
  \/ \E r \in SubmitRaised : SwapSubmitRaise(r)

\* Every wallet and network call of a swap eventually returns or raises.
FairSpec == Spec /\ WF_vars(SwapCallSettles)

\* The rest of the program while one subsystem is followed on its own: the
\* swap tab of a connected session, nothing typed, nothing in flight.
FormsAtRest ==
  /\ FormsInit
  /\ activeTab = "swap"
  /\ contractId = PLACEHOLDER_CONTRACT_ID
  /\ localSwaps = << >>

\* One call of a wallet function, for every function, api and script.
CallInit ==
  /\ FormsAtRest
  /\ WalletConnected
  /\ FeedIdle
  /\ call \in SignCalls \cup ExtractCalls \cup InstalledCalls \cup AddressCalls
              \cup ConnectCalls

CallNext ==
  \/ CallHookSignTransaction
  \/ CallKitSignTransaction
  \/ CallExtractAddress
  \/ CallIsWalletInstalled
  \/ CallGetWalletAddress
  \/ CallConnectWallet

CallSpec == CallInit /\ [][CallNext]_vars

\* useWallet's useState initial values, the mount timer pending.
WalletInit ==
  /\ FormsAtRest
  /\ call = NoCall
  /\ FeedIdle
  /\ publicKey = Absent
  /\ walletConnected = FALSE
  /\ freighterInstalled = TRUE
  /\ isLoading = TRUE
  /\ error = NullMsg
  /\ isCorrectNetwork = TRUE
  /\ walletName = "Freighter"
  /\ checkTimer = TRUE
  /\ api \in Apis
  /\ walletOp = "none"
  /\ walletPc = "none"
  /\ walletCalls = << >>

WalletNext ==
  \/ checkConnection
  \/ connect
  \/ disconnect
  \/ \E outcome \in BoolOutcomes("isConnected") : WalletIsConnected(outcome)
  \/ \E outcome \in BoolOutcomes("isAllowed") : WalletIsAllowed(outcome)
  \/ \E outcome \in AddressOutcomes : WalletRequestAccess(outcome)
  \/ \E outcome \in BoolOutcomes("isAllowed") : WalletSetAllowed(outcome)
  \/ \E outcome \in AddressOutcomes : WalletGetAddress(outcome)
  \/ \E outcome \in AddressOutcomes : WalletGetPublicKey(outcome)
  \/ \E outcome \in NetworkOutcomes : WalletGetNetwork(outcome)

WalletSpec == WalletInit /\ [][WalletNext]_vars

\* SwapActivityFeed mounted on the swap tab of a connected session: its
\* load effect has run, so one loadSwaps call is in flight when the
\* contract is deployed.
FeedInit ==
  /\ FormsInit
  /\ activeTab = "swap"
  /\ localSwaps = << >>
  /\ WalletConnected
  /\ call = NoCall
  /\ contractSwaps = << >>
  /\ feedIsLoading = isContractDeployed
  /\ feedError = NullMsg
  /\ cursorRef = NoCursor
  /\ feedLoads = (IF isContractDeployed THEN 1 ELSE 0)
  /\ feedPolls = EmptyBag

\* the swap data a caller can pass: none, or a swap's
SwapDatas == {NoSwapData, SwapData("XLM", "USDC", "5", "hashA")}

FeedNext ==
  \/ \E swapData \in SwapDatas, now \in Clock : FeedSwapSuccess(swapData, now)
  \/ \E records \in RecentSwapsAnswers : FeedLoadResolve(records)
  \/ FeedPollStart
  \/ \E poll \in BagToSet(feedPolls), answer \in GetEventsAnswers(1) :
       FeedPollResolve(poll, answer)

FeedSpec == FeedInit /\ [][FeedNext]_vars

\* The contract side of the program for either contract id: one call of a
\* sorobanClient function followed on its own with the feed at rest, or
\* the mounted activity feed with no such call.
ClientInit ==
  /\ FormsInit
  /\ activeTab = "swap"
  /\ localSwaps = << >>
  /\ WalletConnected
  /\ \/ call \in ClientCalls /\ FeedIdle
     \/ /\ call = NoCall
        /\ contractSwaps = << >>
        /\ feedIsLoading = isContractDeployed
        /\ feedError = NullMsg
        /\ cursorRef = NoCursor
        /\ feedLoads = (IF isContractDeployed THEN 1 ELSE 0)
        /\ feedPolls = EmptyBag

ClientNext ==
  \/ recordSwap
  \/ getRecentSwaps
  \/ pollSwapEventsStart
  \/ \E ok \in BOOLEAN, r \in LoadRaised : ClientGetAccount(ok, r)
  \/ \E outcome \in {"ok", "simulationError", "raise"}, r \in LoadRaised :
       ClientSimulateRecord(outcome, r)
  \/ \E records \in RecentSwapsAnswers : ClientSimulateRecent(records)
  \/ \E outcome \in SignOutcomes : ClientSignTx(outcome)
  \/ \E sendStatus \in SendStatuses \cup {"raise"}, hash \in Hashes, r \in LoadRaised :
       ClientSendTransaction(sendStatus, hash, r)
  \/ \E getStatus \in GetStatuses \cup {"raise"}, r \in LoadRaised :
       ClientGetTransaction(getStatus, r)
  \/ \E answer \in GetEventsAnswers(1) : ClientGetEvents(answer)
  \/ call.fn = "none" /\ FeedNext

ClientSpec == ClientInit /\ [][ClientNext]_vars

\* estimateSwapReceive applied to one orderbook snapshot and two sell
\* amounts, the second no smaller than the first.  A snapshot lists its
\* bids best price first, each with a positive amount.
BidPrices == {XLM \div 4, XLM \div 2, XLM}
BidAmounts == {3 * XLM, 10 * XLM}
Snapshots ==
  { book \in UNION { [1..n -> [price : BidPrices, amount : BidAmounts]] : n \in 0..MaxBids } :
      \A i \in 1..(Len(book) - 1) : book[i].price >= book[i + 1].price }
SellStrings == {"0", "1", "5", "6", "50"}

EstimateCall(bids, less, more) ==
  [fn |-> "estimateSwapReceive", bids |-> bids, less |-> less, more |-> more,
   done |-> FALSE, receivedLess |-> DecEmpty, receivedMore |-> DecEmpty]

EstimateInit ==
  /\ FormsAtRest
  /\ WalletConnected
  /\ FeedIdle
  /\ call \in { EstimateCall(bids, sells[1], sells[2]) :
                  bids \in Snapshots,
                  sells \in {p \in SellStrings \X SellStrings :
                               parseFloat(p[1]) <= parseFloat(p[2])} }

\* both estimates are computed from the snapshot
EstimateBoth ==
  /\ ~call.done
  /\ call' = [call EXCEPT !.done = TRUE,
                          !.receivedLess = estimateSwapReceive(call.bids, call.less),
                          !.receivedMore = estimateSwapReceive(call.bids, call.more)]
  /\ CallOthersUnchanged

EstimateSpec == EstimateInit /\ [][EstimateBoth]_vars

\* The swap form's inputs and price preview followed on their own, with
\* overlapping preview requests and two positive sell amounts.
PreviewAmounts == {"", "5", "50"}

PreviewInit ==
  /\ FormsAtRest
  /\ WalletConnected
  /\ FeedIdle
  /\ call = NoCall

PreviewNext ==
  \/ \E a \in PreviewAmounts : SetSellAmount(a)
  \/ \E idx \in AssetChoices : SelectSellAsset(idx)
  \/ \E idx \in AssetChoices : SelectBuyAsset(idx)
  \/ handleFlipAssets
  \/ DebounceFireWithin(MaxOverlap)
  \/ \E req \in BagToSet(previews), book \in Orderbooks, walkBook \in Orderbooks :
       PreviewResolve(req, book, walkBook)
  \/ \E req \in BagToSet(previews) : PreviewReject(req)

PreviewSpec == PreviewInit /\ [][PreviewNext]_vars

(***************************************************************************)
(* Properties.                                                             *)
(***************************************************************************)

\* C1 as stated: a form's lifecycle status never goes from success to
\* pending; the only transition out of success is a reset to idle.
C1_SuccessOnlyToIdle ==
  [][ /\ (txStatus = "success" => txStatus' \in {"success", "idle"})
      /\ (status = "success" => status' \in {"success", "idle"}) ]_vars

\* C1 as the code has it: the swap form leaves success only by resetTx and
\* the handleSubmit form only by resetForm, both to idle; the handleSend
\* form has no reset and leaves success only by a new submit click, which
\* sets pending and starts a fresh sendPayment.
C1_LeavingSuccess ==
  [][ /\ (txStatus = "success" /\ txStatus' # "success")
            => (resetTx /\ txStatus' = "idle")
      /\ (status = "success" /\ status' # "success")
            => \/ payForm = "handleSubmit" /\ resetForm /\ status' = "idle"
               \/ /\ payForm = "handleSend" /\ handleSend /\ status' = "pending"
                  /\ payCalls' = [load |-> 1, sign |-> 0, submit |-> 0] ]_vars

\* a handleSend form that is pending again after a success
C1_PendingAfterSuccess ==
  payForm = "handleSend" /\ status = "pending" /\ refreshTrigger > 0

\* C2 as stated: the swap status enters success or failed only from
\* pending, and enters pending only when handleSwap starts the pipeline.
C2_OnlyThroughPending ==
  [][ /\ (txStatus' \in {"success", "failed"} /\ txStatus' # txStatus)
            => txStatus = "pending"
      /\ (txStatus' = "pending" /\ txStatus # "pending")
            => (handleSwap /\ swapPc' = "load") ]_vars

\* C2 as the code has it: success is entered only from pending, when the
\* submission returns; pending is entered only from idle or failed, when
\* handleSwap starts the pipeline; failed is entered from pending when a
\* pipeline stage raises, or straight from idle when handleSwap finds the
\* best price empty, 'N/A' or '0' and starts no pipeline.
C2_Lifecycle ==
  [][ /\ (txStatus' = "success" /\ txStatus # "success")
            => (txStatus = "pending" /\ swapPc = "submit")
      /\ (txStatus' = "failed" /\ txStatus # "failed")
            => \/ txStatus = "pending" /\ swapPc # "none" /\ swapPc' = "none"
               \/ /\ txStatus = "idle" /\ handleSwap
                  /\ bestPrice.kind \in {"empty", "na", "zero"}
                  /\ txError' = MsgNoLiquidity
                  /\ swapPc' = "none" /\ swapCalls' = NoCalls
      /\ (txStatus' = "pending" /\ txStatus # "pending")
            => /\ txStatus \in {"idle", "failed"} /\ handleSwap
               /\ swapPc' = "load"
               /\ swapCalls' = [load |-> 1, sign |-> 0, submit |-> 0] ]_vars

\* failed without a pipeline: the no-liquidity message, set by handleSwap alone
C2_FailedWithoutPending ==
  txStatus = "failed" /\ txError = MsgNoLiquidity /\ swapPc = "none"

C4_RecordingIsAuxiliary ==
  /\ [](txStatus = "success" => txHash \in Hashes /\ txError = NullMsg)
  /\ [][ /\ (txStatus # "success" /\ txStatus' = "success")
               => /\ refreshTrigger' = refreshTrigger + 1
                  /\ recTasks' = IF contractId = PLACEHOLDER_CONTRACT_ID
                                   THEN recTasks
                                   ELSE recTasks (+) SetToBag({RecTask("getAccount", NoHash)})
         /\ (recTasks' # recTasks /\ ~(txStatus # "success" /\ txStatus' = "success"))
               => UNCHANGED <<txStatus, txHash, txError, refreshTrigger>>
         /\ (txStatus = "success" /\ txStatus' = "success")
               => UNCHANGED <<txHash, txError>> ]_vars

\* a recordSwap call has ended and the swap is still shown as successful
C4_RecordedOrDropped ==
  /\ txStatus = "success" /\ txHash \in Hashes
  /\ contractId # PLACEHOLDER_CONTRACT_ID /\ recTasks = EmptyBag /\ refreshTrigger = 1

\* C5: within one swap or send action the awaited calls are issued in
\* order and at most once each: the source account load first (for a
\* payment, then the destination load), the signing request once, after
\* the loads and with the envelope built, the submission once, only after
\* the signer returned a payload that parses; a call that raises ends the
\* action, and only a click on the form's button starts another one.
C5_StepsInOrderOnce ==
  /\ [](/\ swapCalls.load <= 1 /\ swapCalls.sign <= 1 /\ swapCalls.submit <= 1
        /\ swapCalls.sign = 1 => (swapCalls.load = 1 /\ swapEnvelope # << >>)
        /\ swapEnvelope # << >> => swapCalls.sign = 1
        /\ swapCalls.submit = 1 => (swapCalls.sign = 1 /\ swapSigned \in ValidXdr)
        /\ swapPc = "load" => swapCalls = [load |-> 1, sign |-> 0, submit |-> 0]
        /\ swapPc = "sign" => swapCalls = [load |-> 1, sign |-> 1, submit |-> 0]
        /\ swapPc = "submit" => swapCalls = [load |-> 1, sign |-> 1, submit |-> 1]
        /\ swapPc = "none" => swapCalls = NoCalls)
  /\ [](/\ payCalls.load <= 2 /\ payCalls.sign <= 1 /\ payCalls.submit <= 1
        /\ payCalls.sign = 1 => (payCalls.load = 2 /\ payEnvelope # << >>)
        /\ payEnvelope # << >> => payCalls.sign = 1
        /\ payCalls.submit = 1 => (payCalls.sign = 1 /\ paySigned \in ValidXdr)
        /\ payPc = "loadSource" => payCalls = [load |-> 1, sign |-> 0, submit |-> 0]
        /\ payPc = "loadDest" => payCalls = [load |-> 2, sign |-> 0, submit |-> 0]
        /\ payPc = "sign" => payCalls = [load |-> 2, sign |-> 1, submit |-> 0]
        /\ payPc = "submit" => payCalls = [load |-> 2, sign |-> 1, submit |-> 1]
        /\ payPc = "none" => payCalls = NoCalls)
  /\ [][ /\ (swapPc = "none" /\ swapPc' # "none") => handleSwap
         /\ (payPc = "none" /\ payPc' # "none") => (handleSend \/ handleSubmit)
         /\ (swapPc = "submit" /\ txStatus' # "success")
               => (swapPc' = "submit" \/ (swapPc' = "none" /\ txStatus' = "failed"))
         /\ (payPc = "submit" /\ status' # "success")
               => (payPc' = "submit" \/ (payPc' = "none" /\ status' = "error")) ]_vars

\* a swap whose three calls have been issued, one each
C5_SwapSubmitted ==
  /\ swapPc = "submit" /\ swapCalls = [load |-> 1, sign |-> 1, submit |-> 1]
  /\ swapSigned \in ValidXdr /\ txStatus = "pending"

\* C6: an envelope built by sendPayment holds exactly one operation, for the
\* requested destination and amount: createAccount (startingBalance the
\* amount) exactly when the destination load reported not-found, payment
\* exactly when it returned; when the destination load raises anything
\* else the caller gets that error and nothing is built, signed or
\* submitted.
C6_OneOperation ==
  /\ [](payEnvelope # << >> =>
          /\ Len(payEnvelope) = 1
          /\ payEnvelope[1].destination = payArgs.destination
          /\ IF destinationExists
               THEN /\ payEnvelope[1].type = "payment"
                    /\ payEnvelope[1].amount = payArgs.amount
               ELSE /\ payEnvelope[1].type = "createAccount"
                    /\ payEnvelope[1].startingBalance = payArgs.amount)
  /\ [][ /\ \A outcome \in {"ok", "notFound"} :
               (PayLoadDest(outcome) /\ payPc' = "sign")
                 => /\ destinationExists' = (outcome = "ok")
                    /\ payEnvelope'[1].type =
                         (IF outcome = "notFound" THEN "createAccount" ELSE "payment")
         /\ \A r \in LoadRaised :
               PayLoadDestRaise(r)
                 => /\ status' = "error"
                    /\ payError' = (IF ~r.isError
                                      THEN IF payForm = "handleSend" THEN MsgPaymentFailed
                                                                    ELSE MsgTxFailed
                                      ELSE r.message)
                    /\ payPc' = "none" /\ payEnvelope = << >> /\ payEnvelope' = << >>
                    /\ payCalls.sign = 0 /\ payCalls.submit = 0
                    /\ payCalls' = NoCalls ]_vars

\* the destination was not found: a createAccount envelope is at the signer
C6_CreateAccountBuilt ==
  /\ payPc = "sign" /\ ~destinationExists
  /\ payEnvelope = << CreateAccountOp(payArgs.destination, payArgs.amount) >>

\* C7: the envelope executeSwap builds from the loaded account starts with
\* one changeTrust for the buy asset exactly when that asset is not native
\* and no balance line has its code and issuer, and holds none otherwise;
\* its last operation is the manageSellOffer with offerId 0.
C7_TrustlineThenOffer ==
  /\ [](swapEnvelope # << >> =>
          LET n == Len(swapEnvelope)
          IN /\ n \in {1, 2}
             /\ swapEnvelope[n] = [type |-> "manageSellOffer",
                                   selling |-> AssetAt(swapArgs.selling),
                                   buying |-> AssetAt(swapArgs.buying),
                                   amount |-> swapArgs.sellAmount,
                                   price |-> swapArgs.minPrice, offerId |-> 0]
             /\ n = 2 => /\ swapEnvelope[1].type = "changeTrust"
                         /\ swapEnvelope[1].asset = AssetAt(swapArgs.buying)
                         /\ AssetAt(swapArgs.buying).issuer # "")
  /\ [][ \A balances \in Accounts :
           (SwapLoadOk(balances) /\ swapPc' = "sign")
             => LET buying == AssetAt(swapArgs.buying)
                    missing == /\ buying.issuer # ""
                               /\ ~\E line \in balances :
                                     /\ line.asset_code = buying.code
                                     /\ line.asset_issuer = buying.issuer
                IN Len(swapEnvelope') = (IF missing THEN 2 ELSE 1) ]_vars

\* a swap whose envelope starts with the changeTrust operation
C7_TrustlineAdded ==
  /\ swapPc = "sign" /\ Len(swapEnvelope) = 2
  /\ swapEnvelope[1] = ChangeTrustOp(AssetAt(swapArgs.buying))

\* C8 as stated: for a swap whose minimum price is <= 0 no account load,
\* signing request or submission is issued.
C8_NoCallOnInvalidPrice ==
  (swapPc # "none" /\ swapArgs.minPrice <= 0) => swapCalls = NoCalls

\* C9 as stated: sendPayment is not entered (no account load, signing
\* request or submission) for a destination that is malformed or the
\* sender's own address, or for an amount that is not positive or exceeds
\* the balance less the 1 XLM reserve.
C9_NoCallOnInvalidForm ==
  payPc # "none" =>
    /\ isValidStellarAddress(payArgs.destination)
    /\ payArgs.destination # PublicKey
    /\ parseFloat(payArgs.amount) > 0
    /\ parseFloat(payArgs.amount) <= parseFloat(balance) - XLM

\* C10 as stated: when the wallet raises an Error whose message contains
\* "declined" or "rejected", the form shows the user-rejection message;
\* any other message is shown as it is.
C10_DeclinedOrRejected ==
  [][ (payPc = "sign" \/ swapPc = "sign") =>
      \A outcome \in SignOutcomes :
        (outcome.kind = "raise" /\ outcome.raised.isError
           /\ (PaySign(outcome) \/ SwapSign(outcome)))
          => LET m == outcome.raised.message
                 shown == IF activeTab = "send" THEN payError' ELSE txError'
             IN shown = (IF Includes(m, <<"declined">>) \/ Includes(m, <<"rejected">>)
                           THEN MsgRejectedByUser ELSE m) ]_vars

\* C10 as the code has it: a signing failure (the wallet raises an Error, or
\* answers with an error field, whose empty value reads 'Transaction
\* signing failed') is shown as the user-rejection message when its message
\* contains "User declined" or "rejected", and with its own message
\* otherwise; a raised value that is no Error is shown as 'Failed to sign
\* transaction'.
C10_UserDeclinedOrRejected ==
  [][ (payPc = "sign" \/ swapPc = "sign") =>
      \A outcome \in SignOutcomes :
        ((outcome.kind = "raise"
            \/ (outcome.response.type = "object" /\ outcome.response.hasError))
           /\ (PaySign(outcome) \/ SwapSign(outcome)))
          => LET m == IF outcome.kind = "raise" THEN outcome.raised.message
                      ELSE IF outcome.response.error = EmptyMsg THEN MsgSigningFailed
                      ELSE outcome.response.error
                 shown == IF activeTab = "send" THEN payError' ELSE txError'
             IN shown = (IF outcome.kind = "raise" /\ ~outcome.raised.isError
                           THEN MsgFailedToSign
                         ELSE IF Includes(m, <<"User", "declined">>)
                                   \/ Includes(m, <<"rejected">>)
                           THEN MsgRejectedByUser
                         ELSE m) ]_vars

\* the wallet raised 'Request declined' and the form shows that message
C10_DeclinedShownAsIs ==
  status = "error" /\ payError = <<"Request", "declined">>

\* C11 as stated: sign raises with the wallet's own message whenever the
\* wallet's response carries an error field, raises with a generic message
\* when no signed payload can be extracted (the bare string, then
\* signedTxXdr, signedXDR, xdr), and otherwise returns the extracted payload.
C11_OwnMessageOnErrorField ==
  (call.done /\ call.fn \in {"useWallet.signTransaction", "walletKit.signTransaction"}
     /\ call.script.sign.kind = "response") =>
    LET r == call.script.sign.response
        hook == call.fn = "useWallet.signTransaction"
        payload == IF r.type = "string" THEN r.str
                   ELSE IF r.type # "object" THEN Absent
                   ELSE IF r.signedTxXdr # Absent THEN r.signedTxXdr
                   ELSE IF r.signedXDR # Absent THEN r.signedXDR
                   ELSE r.xdr
    IN IF r.type = "object" /\ r.hasError
         THEN call.result = Throw(Err(r.error))
       ELSE IF payload \in {Absent, ""}
         THEN call.result = Throw(Err(IF hook THEN MsgNoSignedWallet ELSE MsgKitNoSigned))
       ELSE call.result = Ok(payload)

\* C11 as the code has it: when the wallet's response carries an error
\* field, sign raises with that field's message if it is not empty, and
\* with a generic 'signing failed' message if it is; useWallet's sign
\* replaces a message that contains "User declined" or "rejected" by
\* 'Transaction was rejected by user'.  Without an error field, sign
\* raises with a generic message when the first string among the bare
\* response, signedTxXdr, signedXDR and xdr is missing or empty, and
\* otherwise returns that string.
C11_SignSettles ==
  (call.done /\ call.fn \in {"useWallet.signTransaction", "walletKit.signTransaction"}
     /\ call.script.sign.kind = "response") =>
    LET r == call.script.sign.response
        hook == call.fn = "useWallet.signTransaction"
        payload == IF r.type = "string" THEN r.str
                   ELSE IF r.type # "object" THEN Absent
                   ELSE IF r.signedTxXdr # Absent THEN r.signedTxXdr
                   ELSE IF r.signedXDR # Absent THEN r.signedXDR
                   ELSE r.xdr
        declined == Includes(r.error, <<"User", "declined">>)
                      \/ Includes(r.error, <<"rejected">>)
    IN IF r.type = "object" /\ r.hasError
         THEN call.result =
                Throw(Err(IF r.error = EmptyMsg
                            THEN (IF hook THEN MsgSigningFailed ELSE MsgKitSigningFailed)
                          ELSE IF hook /\ declined THEN MsgRejectedByUser
                          ELSE r.error))
       ELSE IF payload \in {Absent, ""}
         THEN call.result = Throw(Err(IF hook THEN MsgNoSignedWallet ELSE MsgKitNoSigned))
       ELSE call.result = Ok(payload)

\* the wallet answered {error: 'User declined access'} and useWallet's sign
\* raised 'Transaction was rejected by user'
C11_DeclineReworded ==
  /\ call.done
  /\ call.fn = "useWallet.signTransaction"
  /\ call.script.sign.kind = "response"
  /\ call.script.sign.response.hasError
  /\ call.script.sign.response.error = <<"User", "declined", "access">>
  /\ call.result = Throw(Err(MsgRejectedByUser))

\* C12 as stated: address extraction returns the first present non-empty
\* string among the bare response, the address field and the publicKey
\* field, and null for every other shape.
C12_FirstNonEmptyString ==
  (call.done /\ call.fn = "extractAddress") =>
    LET r == call.script.address.response
    IN call.result.value =
         (IF r.type = "string" THEN (IF r.str # "" THEN r.str ELSE Absent)
          ELSE IF r.type # "object" THEN Absent
          ELSE IF r.address \notin {Absent, ""} THEN r.address
          ELSE IF r.publicKey \notin {Absent, ""} THEN r.publicKey
          ELSE Absent)

\* C13: in connect, when the installed check reports not installed, no
\* requestAccess or setAllowed call is made and the attempt ends with the
\* wallet-not-detected error; when it reports installed, requestAccess is
\* tried first if the api has it, and setAllowed is used when requestAccess
\* is absent, raises or yields no address; when setAllowed reports false the
\* attempt ends with the connection-rejected error and no address stored.
C13_ConnectSteps ==
  [][ walletOp = "connect" =>
      /\ \A o \in BoolOutcomes("isConnected") :
           (o.kind = "response" /\ WalletIsConnected(o)) =>
             IF (o.response.type = "boolean" /\ o.response.bool)
                  \/ (o.response.type = "object" /\ o.response.key = "isConnected"
                        /\ o.response.val)
               THEN /\ walletPc' = (IF "requestAccess" \in api THEN "requestAccess"
                                                              ELSE "setAllowed")
                    /\ walletCalls' = << "isConnected", walletPc' >>
               ELSE /\ walletPc' = "none"
                    /\ walletCalls' = << "isConnected" >>
                    /\ error' = MsgNotDetected
      /\ \A o \in AddressOutcomes :
           WalletRequestAccess(o) =>
             IF o.kind = "raise" \/ Falsy(extractAddress(o.response))
               THEN /\ walletPc' = "setAllowed"
                    /\ walletCalls' = << "isConnected", "requestAccess", "setAllowed" >>
                    /\ publicKey' = Absent
               ELSE publicKey' = extractAddress(o.response)
      /\ \A o \in BoolOutcomes("isAllowed") :
           (o.kind = "response" /\ ~extractBooleanResult(o.response, "isAllowed")
              /\ WalletSetAllowed(o)) =>
             /\ walletPc' = "none"
             /\ error' = MsgConnectionRejected
             /\ publicKey' = Absent
             /\ ~walletConnected' ]_vars

\* requestAccess gave no address, setAllowed reported false: the attempt
\* has ended with the connection-rejected error and no address
C13_RejectedAfterFallback ==
  /\ walletOp = "none"
  /\ walletCalls = << "isConnected", "requestAccess", "setAllowed" >>
  /\ error = MsgConnectionRejected
  /\ publicKey = Absent

\* C14 as stated: when the network query raises or yields no recognizable
\* passphrase, the connect or connection check completes with
\* isCorrectNetwork true and no wrong-network error, whatever they were
\* before.
C14_NetworkFailureIsOk ==
  [][ walletPc = "getNetwork" =>
      \A o \in NetworkOutcomes :
        ((o.kind = "raise" \/ extractNetworkPassphrase(o.response) = Absent)
           /\ WalletGetNetwork(o))
          => (isCorrectNetwork' = TRUE /\ error' # MsgSwitchTestnet) ]_vars

\* C15 as stated: when the installed check raises, connect and
\* checkConnection end with freighterInstalled false and walletConnected
\* false, and make no further wallet call.
C15_RaiseMeansNotInstalled ==
  [][ walletPc = "isConnected" =>
      \A o \in BoolOutcomes("isConnected") :
        (o.kind = "raise" /\ WalletIsConnected(o))
          => (~freighterInstalled' /\ ~walletConnected' /\ walletPc' = "none") ]_vars

\* C16 as stated: disconnect leaves the connection state empty (no key, not
\* connected, network ok, no error, empty wallet name), and the state stays
\* empty until connect or checkConnection is next invoked, whatever wallet
\* responses arrive in between.
C16_StaysEmptyAfterDisconnect ==
  [][ LET emptyNext == /\ publicKey' = Absent
                       /\ ~walletConnected'
                       /\ isCorrectNetwork'
                       /\ error' = NullMsg
                       /\ walletName' = ""
          empty == /\ publicKey = Absent
                   /\ ~walletConnected
                   /\ isCorrectNetwork
                   /\ error = NullMsg
                   /\ walletName = ""
      IN /\ disconnect => emptyNext
         /\ (empty /\ ~connect /\ ~checkConnection) => emptyNext ]_vars

\* C17: the merged activity list never holds more than 50 entries, and
\* neither does the contract list that poll results are prepended to,
\* after any sequence of local inserts, contract loads and poll results.
C17_FeedCapped ==
  /\ Len(AllSwaps) <= FeedCap
  /\ Len(contractSwaps) <= FeedCap

\* the local and contract records together are more than 50, and 50 are
\* shown
C17_CutAtFifty ==
  /\ Len(localSwaps) + Len(contractSwaps) > FeedCap
  /\ Len(AllSwaps) = FeedCap

\* C18 as stated: the merged activity list that is shown is ordered by
\* timestamp, latest first.
C18_DescendingByTimestamp ==
  \A i \in 1..(Len(AllSwaps) - 1) : AllSwaps[i].timestamp >= AllSwaps[i + 1].timestamp

\* C19 as stated: every swap that reaches success is inserted at once as a
\* local record (user, hash) at the head of the local list, and the local
\* records are shown ahead of all contract records.
C19_SuccessInsertsLocalRecord ==
  [][ /\ (txStatus # "success" /\ txStatus' = "success") =>
           /\ Len(localSwaps') = Len(localSwaps) + 1
           /\ localSwaps'[1].user = publicKey
           /\ localSwaps'[1].txHash = txHash'
      /\ Len(localSwaps) <= FeedCap => SubSeq(AllSwaps, 1, Len(localSwaps)) = localSwaps
    ]_vars

\* C20 as stated: a poll called with a non-empty cursor returns only events
\* newer than that cursor, so that no event is prepended to the contract
\* list twice: every event a poll delivers is newer than the cursor the
\* poll was called with and newer than the cursor stored when it is
\* delivered.
C20_OnlyNewerEvents ==
  [][ \A poll \in BagToSet(feedPolls), answer \in GetEventsAnswers(1) :
        FeedPollResolve(poll, answer) =>
          \A i \in 1..Len(answer.events) :
            /\ answer.events[i].pagingToken > poll.cursor
            /\ answer.events[i].pagingToken > cursorRef ]_vars

\* C21 as stated: the feed's stored cursor never regresses: a poll whose
\* getEvents call fails delivers no records and leaves the cursor as it
\* was, and no poll, overlapping ones included, replaces the cursor by a
\* paging token earlier than the one stored.
C21_CursorNeverRegresses ==
  [][ /\ cursorRef' >= cursorRef
      /\ \A poll \in BagToSet(feedPolls) :
           FeedPollResolve(poll, [kind |-> "raise", events |-> << >>]) =>
             UNCHANGED <<cursorRef, contractSwaps>> ]_vars

\* C22: while the contract id is the placeholder, no request goes to the
\* Soroban server or to the wallet: recordSwap returns its no-op result,
\* getRecentSwaps the empty list, pollSwapEvents no events and the cursor
\* it was given, each without a request, and the mounted feed issues no
\* load and no poll and keeps its list and cursor empty.
C22_PlaceholderShortCircuits ==
  contractId = PLACEHOLDER_CONTRACT_ID =>
    IF call.fn = "none"
      THEN /\ feedLoads = 0
           /\ feedPolls = EmptyBag
           /\ ~feedIsLoading
           /\ contractSwaps = << >>
           /\ cursorRef = NoCursor
      ELSE /\ call.calls = << >>
           /\ call.pc \in {"start", "done"}
           /\ call.done =>
                /\ call.fn = "recordSwap" => call.result = Ok(NoContract)
                /\ call.fn = "getRecentSwaps" => call.list = << >>
                /\ call.fn = "pollSwapEvents" =>
                     call.list = << >> /\ call.latestCursor = call.cursor

\* recordSwap has returned under the placeholder id
C22_RecordSwapSkipped ==
  /\ contractId = PLACEHOLDER_CONTRACT_ID
  /\ call.fn = "recordSwap"
  /\ call.done

C24_EndsOnlyOnStatus ==
  [][ (call.fn = "recordSwap" /\ call.pc = "getTransaction" /\ call' # call) =>
        IF call'.status = "NOT_FOUND"
          THEN ~call'.done /\ call'.pc = "getTransaction"
          ELSE call'.done /\ call'.status \in GetStatuses ]_vars

\* C24: the status poll has no attempt limit: every NOT_FOUND answer is
\* followed by another getTransaction request, however many came before,
\* and once the submission is sent recordSwap ends exactly when a
\* getTransaction call reports a status other than NOT_FOUND or raises.
C24_PollUntilSettled ==
  [][ (call.fn = "recordSwap" /\ call.pc = "getTransaction" /\ call' # call) =>
        IF call'.status = "NOT_FOUND"
          THEN /\ ~call'.done
               /\ call'.pc = "getTransaction"
               /\ call'.polls = call.polls + 1
               /\ call'.calls = Append(call.calls, "getTransaction")
          ELSE /\ call'.done
               /\ call'.status \in (GetStatuses \cup {"raise"}) \ {"NOT_FOUND"}
               /\ call'.status = "raise" => ~call'.result.ok ]_vars

\* the status has been NOT_FOUND as often as the network gives it, and the
\* call is asking again
C24_StillAsking ==
  /\ call.fn = "recordSwap"
  /\ call.polls = MaxStatusPolls
  /\ call.pc = "getTransaction"
  /\ ~call.done

RECURSIVE SumSeq(_)
SumSeq(seq) == IF seq = << >> THEN 0 ELSE Head(seq) + SumSeq(Tail(seq))

\* C25: for one orderbook snapshot a larger sell amount never gives a
\* smaller estimate, and the fill walk takes from each bid level, best
\* first, no more than the level's amount and in total no more than the
\* sell amount.
C25_EstimateMonotonic ==
  call.done =>
    /\ call.receivedLess.val <= call.receivedMore.val
    /\ \A sell \in {call.less, call.more} :
         LET fills == FillAmounts(call.bids, parseFloat(sell))
         IN /\ Len(fills) <= Len(call.bids)
            /\ \A i \in 1..Len(fills) : fills[i] >= 0 /\ fills[i] <= call.bids[i].amount
            /\ SumSeq(fills) <= parseFloat(sell)
            /\ estimateSwapReceive(call.bids, sell).val =
                 ToFixed7(SumSeq([i \in 1..Len(fills) |->
                                    (fills[i] * call.bids[i].price) \div XLM]))

\* the larger amount reaches a second bid level the smaller one does not,
\* and gives a larger estimate
C25_SecondLevelReached ==
  /\ call.done
  /\ Len(FillAmounts(call.bids, parseFloat(call.less))) = 1
  /\ Len(FillAmounts(call.bids, parseFloat(call.more))) = 2
  /\ call.receivedLess.val < call.receivedMore.val

\* C26: a price-preview request is never cancelled: a change of the inputs
\* or a later request leaves every request in flight, and whenever a
\* request's answer arrives, whether the request is still the latest or
\* was superseded, the displayed best price and estimate are overwritten
\* with that answer's values (or with 'N/A' and '0' when it failed).
C26_StaleAnswerOverwrites ==
  [][ \A req \in BagToSet(previews) :
        CopiesIn(req, previews') < CopiesIn(req, previews) =>
          /\ isLoadingPrice' = FALSE
          /\ \/ \E book \in Orderbooks, walkBook \in Orderbooks :
                  /\ bestPrice' = BestBidPrice(book)
                  /\ estimatedReceive' = estimateSwapReceive(walkBook, req.amount)
             \/ bestPrice' = DecNA /\ estimatedReceive' = DecZero ]_vars

\* nothing is in flight or pending, and the estimate shown is one that no
\* orderbook gives for the sell amount entered: it is the answer to a
\* request for an earlier amount, which arrived last
C26_StaleEstimateShown ==
  /\ previews = EmptyBag
  /\ ~debounceArmed
  /\ ~isLoadingPrice
  /\ sellAmount = "50"
  /\ estimatedReceive.kind = "num"
  /\ \A walkBook \in Orderbooks : estimatedReceive # estimateSwapReceive(walkBook, sellAmount)

\* C27 as stated: the minimum price of a swap comes from an orderbook
\* snapshot fetched for the pair and amount selected when the swap starts:
\* handleSwap never starts while the preview for the current inputs is
\* still to come, that is while the debounce timer armed by the last input
\* change is pending or a preview request is in flight.
C27_PriceFromCurrentPair ==
  [][ (swapPc # "load" /\ swapPc' = "load") =>
        /\ ~debounceArmed
        /\ previews = EmptyBag ]_vars

\* C28: in every state of the wallet session isConnected is true exactly
\* when an address is held, whatever the order of connect,
\* checkConnection, disconnect and the wallet's answers to them.
C28_ConnectedIffAddress ==
  walletConnected <=> ~Falsy(publicKey)

\* the session was disconnected while the attempt that connected it still
\* awaits the wallet's network answer
C28_DisconnectedWhilePending ==
  /\ ~walletConnected
  /\ publicKey = Absent
  /\ walletPc = "getNetwork"

\* C30 as stated: every connect attempt that ends without a connection
\* leaves an error message in the session state: when connect has run to
\* its end (isLoading is false again) and isConnected is false, error is
\* set and not empty.
C30_FailedConnectHasError ==
  [][ (walletOp = "connect" /\ walletOp' = "none" /\ ~walletConnected') =>
        /\ ~isLoading'
        /\ error' # NullMsg
        /\ error' # EmptyMsg ]_vars

\* C29: at most one swap is in flight per form: handleSwap starts only
\* when no swap is pending, a pending swap issues one signing request and
\* one submission at most, and while the status is pending the sell
\* amount and both asset selections stay as they are.
C29_OneSwapInFlight ==
  [][ /\ (swapPc' = "load" /\ swapPc # "load") =>
           (txStatus # "pending" /\ swapPc = "none")
      /\ (swapPc # "none") <=> (txStatus = "pending")
      /\ swapCalls.load <= 1 /\ swapCalls.sign <= 1 /\ swapCalls.submit <= 1
      /\ txStatus = "pending" =>
           /\ sellAmount' = sellAmount
           /\ sellAssetIndex' = sellAssetIndex
           /\ buyAssetIndex' = buyAssetIndex ]_vars

\* a swap is pending and has been signed and submitted, each once
\* while the inputs it started with are still the form's
C29_PendingAtSubmit ==
  /\ txStatus = "pending"
  /\ swapPc = "submit"
  /\ swapCalls = [load |-> 1, sign |-> 1, submit |-> 1]
  /\ swapArgs.sellAmount = sellAmount
  /\ swapArgs.selling = sellAssetIndex
  /\ swapArgs.buying = buyAssetIndex

====
